---- MODULE Spec2Model ----
(***************************************************************************)
(* drillbuilder: answer grading (models.py), the spaced-repetition         *)
(* scheduler (srs.py), the attempt routes (routes/attempts.py) and the     *)
(* quiz routes (routes/quizzes.py).                                        *)
(***************************************************************************)
EXTENDS Integers, Sequences, FiniteSets, TLC

VARIABLES
    today,        \* the value date.today() returns (day number)
    item,         \* SpecSrs: one UserItem row driven through the scheduler
    before,       \* SpecSrs: the row as it was before the last scheduler update
    last,         \* SpecSrs: outcome of the last update: "none", "correct", "incorrect"
    run,          \* SpecSrs: correct results since the last incorrect one (or creation)
    updated_on,   \* SpecSrs: the day of the last scheduler update
    val_question, \* SpecValidate: the question validate_answer is called on
    val_response, \* SpecValidate: the user_response passed to it
    val_result,   \* SpecValidate: what the call produced
    user_items,   \* Spec: table user_items, rows in id order
    attempts,     \* Spec: table quiz_attempts, rows in id order
    answers,      \* Spec: table user_answers, rows in id order
    reply,        \* Spec: the HTTP response of the last request
    graded,       \* Spec: the (user, question) pairs graded since the user last
                  \* cleared the results of the question's quiz
    inserted,     \* Spec: rows ever inserted into quiz_attempts and user_answers
    norm,         \* SpecNormalize: a string, its normal form, and that of the latter
    quiz_rows,    \* SpecQuiz: table quizzes, by id
    question_rows,\* SpecQuiz: table questions (with answer_components), rows in id order
    quiz_reply,   \* SpecQuiz: the request last served and its HTTP response
    sessions      \* SpecRace: the database engine, its write lock and the two requests

srs_vars == <<item, before, last, run, updated_on>>
val_vars == <<val_question, val_response, val_result>>
db_vars == <<user_items, attempts, answers, reply, graded, inserted>>
ext_vars == <<norm, quiz_rows, question_rows, quiz_reply, sessions>>
vars == <<today, item, before, last, run, updated_on, val_question, val_response, val_result,
          user_items, attempts, answers, reply, graded, inserted,
          norm, quiz_rows, question_rows, quiz_reply, sessions>>

(***************************************************************************)
(* Bounds of the model.                                                    *)
(***************************************************************************)
MaxStreak == 6      \* longest run of correct results explored
MaxDay == 2         \* last day the clock reaches (SpecSrs)
MaxDbDay == 1       \* last day the clock reaches (Spec)
MaxOptions == 3     \* options of a multiple choice question
MaxPairs == 3       \* pairs of a word match question
MaxListLen == 3     \* longest list of option ids submitted
MaxAttempts == 2    \* rows inserted into quiz_attempts
MaxAnswers == 2     \* rows inserted into user_answers
MaxTextLen == 3     \* longest string given to _normalize_answer (SpecNormalize)
MaxQuestionId == 2  \* largest id the questions table gives out (SpecQuiz)

(***************************************************************************)
(* Python float (IEEE-754 binary64).  A value is held exactly as five      *)
(* limbs <<I, f3, f2, f1, f0>> = I + (f3*2^42 + f2*2^28 + f1*2^14 + f0) /  *)
(* 2^56; every float operation computes the exact result and rounds it to  *)
(* 53 significant bits, ties to even, as the hardware does.                *)
(***************************************************************************)
Limb == 2^14

RECURSIVE BitLen(_)
BitLen(n) == IF n = 0 THEN 0 ELSE 1 + BitLen(n \div 2)

FxNorm(s) ==
    LET t5 == s[5]
        t4 == s[4] + (t5 \div Limb)
        t3 == s[3] + (t4 \div Limb)
        t2 == s[2] + (t3 \div Limb)
        t1 == s[1] + (t2 \div Limb)
    IN  <<t1, t2 % Limb, t3 % Limb, t4 % Limb, t5 % Limb>>

FxSub(a, b) == FxNorm([i \in 1..5 |-> a[i] - b[i]])

FxMulInt(n, a) == FxNorm([i \in 1..5 |-> n * a[i]])

FxLess(a, b) == \E i \in 1..5 : a[i] < b[i] /\ \A j \in 1..(i - 1) : a[j] = b[j]

\* number of significant bits of x counted in units of 2^-56
FxBits(x) ==
    IF x[1] > 0 THEN 56 + BitLen(x[1])
    ELSE IF x[2] > 0 THEN 42 + BitLen(x[2])
    ELSE IF x[3] > 0 THEN 28 + BitLen(x[3])
    ELSE IF x[4] > 0 THEN 14 + BitLen(x[4])
    ELSE BitLen(x[5])

\* round-to-nearest, ties-to-even, to 53 significant bits.  rest tells what
\* lies below the last limb: 0 nothing, 1 less than half a unit, 2 exactly
\* half a unit, 3 more than half a unit.
RoundNearestEven(x, rest) ==
    LET d == FxBits(x) - 53
        u == IF d > 0 THEN 2^d ELSE 1
        w == x[4] * Limb + x[5]
        q == w \div u
        r == w % u
        up == IF u = 1
              THEN rest = 3 \/ (rest = 2 /\ q % 2 = 1)
              ELSE 2 * r > u \/ (2 * r = u /\ (rest > 0 \/ q % 2 = 1))
        w2 == (IF up THEN q + 1 ELSE q) * u
    IN  FxNorm(<<x[1], x[2], x[3], w2 \div Limb, w2 % Limb>>)

\* the float a decimal literal num/den denotes (correctly rounded)
FromDecimal(num, den) ==
    LET r0 == num % den
        r1 == (r0 * Limb) % den
        r2 == (r1 * Limb) % den
        r3 == (r2 * Limb) % den
        r4 == (r3 * Limb) % den
        rest == IF r4 = 0 THEN 0
                ELSE IF 2 * r4 < den THEN 1
                ELSE IF 2 * r4 = den THEN 2 ELSE 3
    IN  RoundNearestEven(<<num \div den, (r0 * Limb) \div den, (r1 * Limb) \div den,
                           (r2 * Limb) \div den, (r3 * Limb) \div den>>, rest)

FloatSub(a, b) == RoundNearestEven(FxSub(a, b), 0)

FloatMulInt(n, a) == RoundNearestEven(FxMulInt(n, a), 0)

\* max(a, b) of two floats: b only when it is strictly greater
FloatMax(a, b) == IF FxLess(a, b) THEN b ELSE a

\* round(x) of a float: nearest integer, ties to the even one
PyRound(x) ==
    LET half == Limb \div 2
        low == x[3] > 0 \/ x[4] > 0 \/ x[5] > 0
        above == x[2] > half \/ (x[2] = half /\ low)
        tie == x[2] = half /\ ~low
    IN  IF above \/ (tie /\ x[1] % 2 = 1) THEN x[1] + 1 ELSE x[1]

(***************************************************************************)
(* models.py: UserItem                                                     *)
(***************************************************************************)
NULL == -1                              \* a NULL column (next_review_date)
DefaultEase == FromDecimal(25, 10)       \* ease_factor default=2.5
EaseFloor == FromDecimal(13, 10)         \* 1.3
EaseStep == FromDecimal(1, 10)           \* 0.1

\* the row the INSERT of UserItem(user_id=.., question_id=..) produces
UserItem(id, user_id, question_id) ==
    [id |-> id, user_id |-> user_id, question_id |-> question_id,
     next_review_date |-> NULL, ease_factor |-> DefaultEase,
     interval_days |-> 0, success_streak |-> 0]

(***************************************************************************)
(* srs.py                                                                  *)
(***************************************************************************)
\* calculate_new_interval truncating the product (int(x) in place of round(x))
calculate_new_interval_truncate(success_streak, ease_factor, previous_interval) ==
    IF success_streak <= 1 THEN 1
    ELSE IF success_streak = 2 THEN 6
    ELSE LET n == FloatMulInt(previous_interval, ease_factor)[1]
         IN  IF n > 1 THEN n ELSE 1

\* calculate_new_interval giving the second success the interval of the
\* first and multiplying from there
calculate_new_interval_no_six(success_streak, ease_factor, previous_interval) ==
    IF success_streak <= 1 THEN 1
    ELSE LET n == PyRound(FloatMulInt(previous_interval, ease_factor))
         IN  IF n > 1 THEN n ELSE 1

calculate_new_interval(success_streak, ease_factor, previous_interval) ==
    IF success_streak <= 1 THEN 1
    ELSE IF success_streak = 2 THEN 6
    ELSE LET n == PyRound(FloatMulInt(previous_interval, ease_factor))
         IN  IF n > 1 THEN n ELSE 1

\* update_user_item_on_result with the failure branch keeping the old interval
update_user_item_on_result_keep_interval(it, was_correct, day) ==
    IF was_correct
    THEN LET streak == it.success_streak + 1
             prev == IF it.interval_days = 0 THEN 1 ELSE it.interval_days
             ivl == calculate_new_interval(streak, it.ease_factor, prev)
         IN  [it EXCEPT !.success_streak = streak,
                        !.interval_days = ivl,
                        !.next_review_date = day + ivl]
    ELSE [it EXCEPT !.success_streak = 0,
                    !.next_review_date = day + 1,
                    !.ease_factor = FloatMax(EaseFloor, FloatSub(it.ease_factor, EaseStep))]

\* update_user_item_on_result with the failure branch lowering the streak by
\* one instead of resetting it
update_user_item_on_result_decrement(it, was_correct, day) ==
    IF was_correct
    THEN LET streak == it.success_streak + 1
             prev == IF it.interval_days = 0 THEN 1 ELSE it.interval_days
             ivl == calculate_new_interval(streak, it.ease_factor, prev)
         IN  [it EXCEPT !.success_streak = streak,
                        !.interval_days = ivl,
                        !.next_review_date = day + ivl]
    ELSE [it EXCEPT !.success_streak = IF @ > 0 THEN @ - 1 ELSE 0,
                    !.interval_days = 1,
                    !.next_review_date = day + 1,
                    !.ease_factor = FloatMax(EaseFloor, FloatSub(it.ease_factor, EaseStep))]

\* update_user_item_on_result without the floor of the ease factor
update_user_item_on_result_no_floor(it, was_correct, day) ==
    IF was_correct
    THEN LET streak == it.success_streak + 1
             prev == IF it.interval_days = 0 THEN 1 ELSE it.interval_days
             ivl == calculate_new_interval(streak, it.ease_factor, prev)
         IN  [it EXCEPT !.success_streak = streak,
                        !.interval_days = ivl,
                        !.next_review_date = day + ivl]
    ELSE [it EXCEPT !.success_streak = 0,
                    !.interval_days = 1,
                    !.next_review_date = day + 1,
                    !.ease_factor = FloatSub(it.ease_factor, EaseStep)]

\* update_user_item_on_result dating the next review from the interval the
\* record had before the update
update_user_item_on_result_stale_interval(it, was_correct, day) ==
    IF was_correct
    THEN LET streak == it.success_streak + 1
             prev == IF it.interval_days = 0 THEN 1 ELSE it.interval_days
             ivl == calculate_new_interval(streak, it.ease_factor, prev)
         IN  [it EXCEPT !.success_streak = streak,
                        !.interval_days = ivl,
                        !.next_review_date = day + prev]
    ELSE [it EXCEPT !.success_streak = 0,
                    !.interval_days = 1,
                    !.next_review_date = day + 1,
                    !.ease_factor = FloatMax(EaseFloor, FloatSub(it.ease_factor, EaseStep))]

update_user_item_on_result(it, was_correct, day) ==
    IF was_correct
    THEN LET streak == it.success_streak + 1
             prev == IF it.interval_days = 0 THEN 1 ELSE it.interval_days
             ivl == calculate_new_interval(streak, it.ease_factor, prev)
         IN  [it EXCEPT !.success_streak = streak,
                        !.interval_days = ivl,
                        !.next_review_date = day + ivl]
    ELSE [it EXCEPT !.success_streak = 0,
                    !.interval_days = 1,
                    !.next_review_date = day + 1,
                    !.ease_factor = FloatMax(EaseFloor, FloatSub(it.ease_factor, EaseStep))]

(***************************************************************************)
(* Python values as the JSON decoder delivers them.  A str is a sequence   *)
(* of one-character strings; the keys of a dict are TLA+ strings.          *)
(***************************************************************************)
PyNone == [t |-> "NoneType"]
PyInt(n) == [t |-> "int", i |-> n]
PyStr(cs) == [t |-> "str", s |-> cs]
PyList(xs) == [t |-> "list", l |-> xs]
PyDict(f) == [t |-> "dict", d |-> f]

\* hash(x) raises TypeError for a list or a dict
Unhashable(x) == x.t \in {"list", "dict"}

Digits == <<"0", "1", "2", "3", "4", "5", "6", "7", "8", "9">>
Whitespace == {" ", "\t", "\n", "\r", "\f"}

\* str(n) for the indices enumerate() produces here (0..9)
Str(n) == Digits[n + 1]

DigitValue(c) == CHOOSE k \in 0..9 : Digits[k + 1] = c

RECURSIVE LStrip(_, _)
LStrip(cs, chars) ==
    IF cs # <<>> /\ Head(cs) \in chars THEN LStrip(Tail(cs), chars) ELSE cs

RECURSIVE RStrip(_, _)
RStrip(cs, chars) ==
    IF cs # <<>> /\ cs[Len(cs)] \in chars
    THEN RStrip(SubSeq(cs, 1, Len(cs) - 1), chars) ELSE cs

\* str.strip(chars); str.strip() is Strip(cs, Whitespace)
Strip(cs, chars) == RStrip(LStrip(cs, chars), chars)

RECURSIVE DigitsValue(_)
DigitsValue(cs) ==
    IF cs = <<>> THEN 0
    ELSE 10 * DigitsValue(SubSeq(cs, 1, Len(cs) - 1)) + DigitValue(cs[Len(cs)])

\* int(x): [exc |-> "None", v |-> n] or the exception int() raises
PyIntOf(x) ==
    IF x.t = "int" THEN [exc |-> "None", v |-> x.i]
    ELSE IF x.t = "str"
    THEN LET body == Strip(x.s, Whitespace)
             signed == body # <<>> /\ Head(body) \in {"-", "+"}
             digs == IF signed THEN Tail(body) ELSE body
             isnum == digs # <<>> /\ \A k \in 1..Len(digs) :
                          \E d \in 1..10 : Digits[d] = digs[k]
         IN  IF ~isnum THEN [exc |-> "ValueError", v |-> 0]
             ELSE [exc |-> "None",
                   v |-> IF signed /\ Head(body) = "-"
                         THEN 0 - DigitsValue(digs) ELSE DigitsValue(digs)]
    ELSE [exc |-> "TypeError", v |-> 0]

(***************************************************************************)
(* models.py: validate_answer of the question classes.  A result is        *)
(* [exc, arity, is_correct, feedback, details]: exc names the exception    *)
(* that left the method ("None" when it returned), arity is the length of  *)
(* the returned tuple, feedback is the format string with its arguments.   *)
(***************************************************************************)
Feedback(fmt, args) == [fmt |-> fmt, args |-> args]

Returned2(ok, fb) ==
    [exc |-> "None", arity |-> 2, is_correct |-> ok, feedback |-> fb, details |-> <<>>]

Returned3(ok, fb, det) ==
    [exc |-> "None", arity |-> 3, is_correct |-> ok, feedback |-> fb, details |-> det]

Raised(e) ==
    [exc |-> e, arity |-> 0, is_correct |-> FALSE, feedback |-> Feedback("", <<>>),
     details |-> <<>>]

\* QuestionBase.validate_answer
QuestionBase_validate_answer(q, user_response) == Raised("NotImplementedError")

\* MultipleChoiceQuestion.validate_answer crediting any selection made of
\* correct options only (subset in place of equality)
MultipleChoiceQuestion_validate_answer_subset(q, user_response) ==
    LET listed == IF user_response.t # "list" THEN <<user_response>>
                  ELSE user_response.l
        chosen == {listed[k] : k \in 1..Len(listed)}
        correct_ids == {PyInt(q.answer_components[k].id) :
                           k \in {j \in 1..Len(q.answer_components) :
                                     q.answer_components[j].is_correct}}
        is_correct == chosen \subseteq correct_ids
    IN  IF \E k \in 1..Len(listed) : Unhashable(listed[k])
        THEN Raised("TypeError")
        ELSE Returned2(is_correct,
                 IF is_correct THEN Feedback("Correct!", <<>>)
                 ELSE Feedback("Incorrect. You selected {} option(s), but {} are correct.",
                               <<Cardinality(chosen), Cardinality(correct_ids)>>))

\* MultipleChoiceQuestion.validate_answer
MultipleChoiceQuestion_validate_answer(q, user_response) ==
    LET listed == IF user_response.t # "list" THEN <<user_response>>
                  ELSE user_response.l
        chosen == {listed[k] : k \in 1..Len(listed)}
        correct_ids == {PyInt(q.answer_components[k].id) :
                           k \in {j \in 1..Len(q.answer_components) :
                                     q.answer_components[j].is_correct}}
        is_correct == chosen = correct_ids
    IN  IF \E k \in 1..Len(listed) : Unhashable(listed[k])
        THEN Raised("TypeError")
        ELSE Returned2(is_correct,
                 IF is_correct THEN Feedback("Correct!", <<>>)
                 ELSE Feedback("Incorrect. You selected {} option(s), but {} are correct.",
                               <<Cardinality(chosen), Cardinality(correct_ids)>>))

\* match.get(key, -1) of one submitted pair, then int() of it
MatchIndex(match, key) ==
    IF key \in DOMAIN match.d THEN PyIntOf(match.d[key])
    ELSE [exc |-> "None", v |-> -1]

\* the loop of WordMatchQuestion.validate_answer over user_response[k..]:
\* the set user_matches, or the exception that leaves the loop
RECURSIVE UserMatches(_, _, _)
UserMatches(resp, k, acc) ==
    IF k > Len(resp) THEN [exc |-> "None", matches |-> acc]
    ELSE LET match == resp[k] IN
         IF match.t # "dict" THEN [exc |-> "AttributeError", matches |-> acc]
         ELSE LET left_idx == MatchIndex(match, "left")
                  right_idx == MatchIndex(match, "right")
              IN  IF left_idx.exc # "None" \/ right_idx.exc # "None"
                  THEN UserMatches(resp, k + 1, acc)
                  ELSE IF left_idx.v = right_idx.v /\ left_idx.v >= 0
                  THEN UserMatches(resp, k + 1, acc \cup {left_idx.v})
                  ELSE UserMatches(resp, k + 1, acc)

\* WordMatchQuestion.validate_answer comparing the count of correct pairs with
\* the number of submitted elements in place of the number of pairs defined
WordMatchQuestion_validate_answer_all_submitted(q, user_response) ==
    IF user_response.t # "list"
    THEN Returned2(FALSE, Feedback("Invalid response format", <<>>))
    ELSE LET um == UserMatches(user_response.l, 1, {})
             total_pairs == Len(user_response.l)
             correct_count == Cardinality(um.matches)
         IN  IF um.exc # "None" THEN Raised(um.exc)
             ELSE Returned2(correct_count = total_pairs,
                      Feedback("Got {} out of {} pairs correct.",
                               <<correct_count, total_pairs>>))

\* WordMatchQuestion.validate_answer crediting a response with at least as
\* many correct pairs as the question has pairs
WordMatchQuestion_validate_answer_at_least(q, user_response) ==
    IF user_response.t # "list"
    THEN Returned2(FALSE, Feedback("Invalid response format", <<>>))
    ELSE LET um == UserMatches(user_response.l, 1, {})
             total_pairs == Len(q.answer_components)
             correct_count == Cardinality(um.matches)
         IN  IF um.exc # "None" THEN Raised(um.exc)
             ELSE Returned2(correct_count >= total_pairs,
                      Feedback("Got {} out of {} pairs correct.",
                               <<correct_count, total_pairs>>))

\* WordMatchQuestion.validate_answer
WordMatchQuestion_validate_answer(q, user_response) ==
    IF user_response.t # "list"
    THEN Returned2(FALSE, Feedback("Invalid response format", <<>>))
    ELSE LET um == UserMatches(user_response.l, 1, {})
             total_pairs == Len(q.answer_components)
             correct_count == Cardinality(um.matches)
         IN  IF um.exc # "None" THEN Raised(um.exc)
             ELSE Returned2(correct_count = total_pairs,
                      Feedback("Got {} out of {} pairs correct.",
                               <<correct_count, total_pairs>>))

(***************************************************************************)
(* models.py: ClozeBlank and ClozeQuestion                                 *)
(***************************************************************************)
\* string.punctuation (without the backquote, which a TLA+ string cannot hold)
Punctuation ==
    {"!", "\"", "#", "$", "%", "&", "'", "(", ")", "*", "+", ",", "-", ".", "/",
     ":", ";", "<", "=", ">", "?", "@", "[", "\\", "]", "^", "_", "{", "|",
     "}", "~"}

UpperCase == <<"A", "B", "C", "D", "E", "F", "G", "H", "I", "J", "K", "L", "M",
               "N", "O", "P", "Q", "R", "S", "T", "U", "V", "W", "X", "Y", "Z">>
LowerCase == <<"a", "b", "c", "d", "e", "f", "g", "h", "i", "j", "k", "l", "m",
               "n", "o", "p", "q", "r", "s", "t", "u", "v", "w", "x", "y", "z">>

\* str.lower()
Lower(cs) ==
    [k \in 1..Len(cs) |->
        IF \E n \in 1..26 : UpperCase[n] = cs[k]
        THEN LowerCase[CHOOSE n \in 1..26 : UpperCase[n] = cs[k]]
        ELSE cs[k]]

\* ClozeBlank._normalize_answer
_normalize_answer(text) == Lower(Strip(text, Punctuation \cup {" "}))

Min3(a, b, c) == IF a <= b /\ a <= c THEN a ELSE IF b <= c THEN b ELSE c

\* the inner loop of levenshtein_distance: current_row for character c1
RECURSIVE LevRow(_, _, _, _, _)
LevRow(previous_row, current_row, c1, s2, j) ==
    IF j > Len(s2) THEN current_row
    ELSE LET insertions == previous_row[j + 1] + 1
             deletions == current_row[j] + 1
             substitutions == previous_row[j] + (IF c1 # s2[j] THEN 1 ELSE 0)
         IN  LevRow(previous_row,
                    Append(current_row, Min3(insertions, deletions, substitutions)),
                    c1, s2, j + 1)

\* the outer loop of levenshtein_distance from the i-th character of s1 on
RECURSIVE LevRows(_, _, _, _)
LevRows(previous_row, s1, i, s2) ==
    IF i > Len(s1) THEN previous_row[Len(previous_row)]
    ELSE LevRows(LevRow(previous_row, <<i>>, s1[i], s2, 1), s1, i + 1, s2)

RECURSIVE levenshtein_distance(_, _)
levenshtein_distance(s1, s2) ==
    IF Len(s1) < Len(s2) THEN levenshtein_distance(s2, s1)
    ELSE IF Len(s2) = 0 THEN Len(s1)
    ELSE LevRows([k \in 1..(Len(s2) + 1) |-> k - 1], s1, 1, s2)

\* ClozeBlank._is_typo
_is_typo(user_answer, correct_answer) ==
    LET ua == Strip(Lower(user_answer), Whitespace)
        ca == Strip(Lower(correct_answer), Whitespace)
        distance == levenshtein_distance(ua, ca)
        max_length == IF Len(ua) > Len(ca) THEN Len(ua) ELSE Len(ca)
    IN  IF ua = ca THEN FALSE
        ELSE IF distance = 1 THEN TRUE
        ELSE IF distance = 2 /\ max_length > 5 THEN TRUE
        ELSE FALSE

\* ClozeBlank.validate_answer trying the typo check against the canonical
\* answer before the exact match against the alternates
ClozeBlank_validate_answer_typo_first(blank, user_answer, case_sensitive) ==
    LET correct == blank.correct_answer
        user_normalized == _normalize_answer(user_answer)
        correct_normalized == _normalize_answer(correct)
        alternates == blank.alternate_answers
    IN  IF correct = <<>> THEN "incorrect"
        ELSE IF user_normalized = <<>> THEN "incorrect"
        ELSE IF user_normalized = correct_normalized THEN "correct"
        ELSE IF _is_typo(user_answer, correct) THEN "typo"
        ELSE IF \E k \in 1..Len(alternates) :
                    user_normalized = _normalize_answer(alternates[k])
        THEN "correct"
        ELSE IF \E k \in 1..Len(alternates) : _is_typo(user_answer, alternates[k])
        THEN "typo"
        ELSE "incorrect"

\* ClozeBlank.validate_answer without the early return for an empty
\* normalized submission
ClozeBlank_validate_answer_no_empty_check(blank, user_answer, case_sensitive) ==
    LET correct == blank.correct_answer
        user_normalized == _normalize_answer(user_answer)
        correct_normalized == _normalize_answer(correct)
        alternates == blank.alternate_answers
    IN  IF correct = <<>> THEN "incorrect"
        ELSE IF user_normalized = correct_normalized THEN "correct"
        ELSE IF \E k \in 1..Len(alternates) :
                    user_normalized = _normalize_answer(alternates[k])
        THEN "correct"
        ELSE IF _is_typo(user_answer, correct) THEN "typo"
        ELSE IF \E k \in 1..Len(alternates) : _is_typo(user_answer, alternates[k])
        THEN "typo"
        ELSE "incorrect"

\* ClozeBlank.validate_answer: "correct", "typo" or "incorrect".  The stored
\* alternate_answers is the JSON text of a list of strings (<<>> when NULL);
\* case_sensitive is accepted and never read.
ClozeBlank_validate_answer(blank, user_answer, case_sensitive) ==
    LET correct == blank.correct_answer
        user_normalized == _normalize_answer(user_answer)
        correct_normalized == _normalize_answer(correct)
        alternates == blank.alternate_answers
    IN  IF correct = <<>> THEN "incorrect"
        ELSE IF user_normalized = <<>> THEN "incorrect"
        ELSE IF user_normalized = correct_normalized THEN "correct"
        ELSE IF \E k \in 1..Len(alternates) :
                    user_normalized = _normalize_answer(alternates[k])
        THEN "correct"
        ELSE IF _is_typo(user_answer, correct) THEN "typo"
        ELSE IF \E k \in 1..Len(alternates) : _is_typo(user_answer, alternates[k])
        THEN "typo"
        ELSE "incorrect"

\* sorted(components, key=lambda x: x.position): stable
RECURSIVE InsertByPosition(_, _)
InsertByPosition(sorted, c) ==
    IF sorted = <<>> THEN <<c>>
    ELSE IF sorted[Len(sorted)].position <= c.position THEN Append(sorted, c)
    ELSE Append(InsertByPosition(SubSeq(sorted, 1, Len(sorted) - 1), c),
                sorted[Len(sorted)])

RECURSIVE SortedByPosition(_)
SortedByPosition(cs) ==
    IF cs = <<>> THEN <<>>
    ELSE InsertByPosition(SortedByPosition(SubSeq(cs, 1, Len(cs) - 1)), cs[Len(cs)])

\* user_response.get(str(idx), empty string) of ClozeQuestion.validate_answer
BlankValue(user_response, idx) ==
    IF Str(idx) \in DOMAIN user_response.d THEN user_response.d[Str(idx)]
    ELSE PyStr(<<>>)

\* ClozeQuestion.validate_answer crediting only the blanks classified "correct"
ClozeQuestion_validate_answer_exact_only(q, user_response) ==
    LET blanks == SortedByPosition(q.answer_components)
        total_blanks == Len(blanks)
        user_answer(idx) == Strip(BlankValue(user_response, idx).s, Whitespace)
        result(idx) == ClozeBlank_validate_answer(blanks[idx + 1], user_answer(idx),
                                                  q.case_sensitive)
        details == [key \in {Str(idx) : idx \in 0..(total_blanks - 1)} |->
                       LET idx == CHOOSE n \in 0..(total_blanks - 1) : Str(n) = key
                       IN  [result |-> result(idx),
                            user_answer |-> user_answer(idx),
                            correct_answer |-> blanks[idx + 1].correct_answer]]
        typo_count == Cardinality({idx \in 0..(total_blanks - 1) : result(idx) = "typo"})
        correct_count ==
            Cardinality({idx \in 0..(total_blanks - 1) : result(idx) \in {"correct"}})
        is_correct == correct_count = total_blanks
    IN  IF total_blanks > 0 /\ user_response.t # "dict" THEN Raised("AttributeError")
        ELSE IF \E idx \in 0..(total_blanks - 1) : BlankValue(user_response, idx).t # "str"
        THEN Raised("AttributeError")
        ELSE Returned3(is_correct,
                 IF typo_count > 0
                 THEN Feedback("Got {} out of {} blanks correct ({} with minor typos).",
                               <<correct_count, total_blanks, typo_count>>)
                 ELSE Feedback("Got {} out of {} blanks correct.",
                               <<correct_count, total_blanks>>),
                 details)

\* ClozeQuestion.validate_answer storing "correct" in details for a typo blank
ClozeQuestion_validate_answer_collapse(q, user_response) ==
    LET blanks == SortedByPosition(q.answer_components)
        total_blanks == Len(blanks)
        user_answer(idx) == Strip(BlankValue(user_response, idx).s, Whitespace)
        result(idx) == ClozeBlank_validate_answer(blanks[idx + 1], user_answer(idx),
                                                  q.case_sensitive)
        details == [key \in {Str(idx) : idx \in 0..(total_blanks - 1)} |->
                       LET idx == CHOOSE n \in 0..(total_blanks - 1) : Str(n) = key
                       IN  [result |-> IF result(idx) = "typo" THEN "correct" ELSE result(idx),
                            user_answer |-> user_answer(idx),
                            correct_answer |-> blanks[idx + 1].correct_answer]]
        typo_count == Cardinality({idx \in 0..(total_blanks - 1) : result(idx) = "typo"})
        correct_count ==
            Cardinality({idx \in 0..(total_blanks - 1) : result(idx) \in {"correct", "typo"}})
        is_correct == correct_count = total_blanks
    IN  IF total_blanks > 0 /\ user_response.t # "dict" THEN Raised("AttributeError")
        ELSE IF \E idx \in 0..(total_blanks - 1) : BlankValue(user_response, idx).t # "str"
        THEN Raised("AttributeError")
        ELSE Returned3(is_correct,
                 IF typo_count > 0
                 THEN Feedback("Got {} out of {} blanks correct ({} with minor typos).",
                               <<correct_count, total_blanks, typo_count>>)
                 ELSE Feedback("Got {} out of {} blanks correct.",
                               <<correct_count, total_blanks>>),
                 details)

\* ClozeQuestion.validate_answer
ClozeQuestion_validate_answer(q, user_response) ==
    LET blanks == SortedByPosition(q.answer_components)
        total_blanks == Len(blanks)
        user_answer(idx) == Strip(BlankValue(user_response, idx).s, Whitespace)
        result(idx) == ClozeBlank_validate_answer(blanks[idx + 1], user_answer(idx),
                                                  q.case_sensitive)
        details == [key \in {Str(idx) : idx \in 0..(total_blanks - 1)} |->
                       LET idx == CHOOSE n \in 0..(total_blanks - 1) : Str(n) = key
                       IN  [result |-> result(idx),
                            user_answer |-> user_answer(idx),
                            correct_answer |-> blanks[idx + 1].correct_answer]]
        typo_count == Cardinality({idx \in 0..(total_blanks - 1) : result(idx) = "typo"})
        correct_count ==
            Cardinality({idx \in 0..(total_blanks - 1) : result(idx) \in {"correct", "typo"}})
        is_correct == correct_count = total_blanks
    IN  IF total_blanks > 0 /\ user_response.t # "dict" THEN Raised("AttributeError")
        ELSE IF \E idx \in 0..(total_blanks - 1) : BlankValue(user_response, idx).t # "str"
        THEN Raised("AttributeError")
        ELSE Returned3(is_correct,
                 IF typo_count > 0
                 THEN Feedback("Got {} out of {} blanks correct ({} with minor typos).",
                               <<correct_count, total_blanks, typo_count>>)
                 ELSE Feedback("Got {} out of {} blanks correct.",
                               <<correct_count, total_blanks>>),
                 details)

\* question.validate_answer(response): dispatch on the polymorphic identity
validate_answer(q, user_response) ==
    CASE q.type = "multiple_choice" -> MultipleChoiceQuestion_validate_answer(q, user_response)
      [] q.type = "cloze" -> ClozeQuestion_validate_answer(q, user_response)
      [] q.type = "word_match" -> WordMatchQuestion_validate_answer(q, user_response)
      [] OTHER -> QuestionBase_validate_answer(q, user_response)

(***************************************************************************)
(* Values of the variables a specification does not use.                   *)
(***************************************************************************)
NoQuestion ==
    [id |-> 0, quiz_id |-> 0, type |-> "base", case_sensitive |-> FALSE,
     answer_components |-> <<>>]

NoResult ==
    [exc |-> "pending", arity |-> 0, is_correct |-> FALSE, feedback |-> Feedback("", <<>>),
     details |-> <<>>]

NoReply ==
    [status |-> 0, correct |-> FALSE, details |-> <<>>, attempt_id |-> 0, questions |-> <<>>]

SrsIdle ==
    /\ item = UserItem(0, 0, 0)
    /\ before = UserItem(0, 0, 0)
    /\ last = "none"
    /\ run = 0
    /\ updated_on = NULL

ValIdle ==
    /\ val_question = NoQuestion
    /\ val_response = PyNone
    /\ val_result = NoResult

DbIdle ==
    /\ user_items = <<>>
    /\ attempts = <<>>
    /\ answers = <<>>
    /\ reply = NoReply
    /\ graded = {}
    /\ inserted = [attempts |-> 0, answers |-> 0]

NormIdle == norm = [text |-> <<>>, once |-> <<>>, twice |-> <<>>, done |-> FALSE]

QuizReply(request, status, out, questions) ==
    [request |-> request, status |-> status, out |-> out, questions |-> questions]

NoQuizReply == QuizReply("none", 0, <<>>, <<>>)

QuizIdle ==
    /\ quiz_rows = <<>>
    /\ question_rows = <<>>
    /\ quiz_reply = NoQuizReply

RaceIdle == sessions = <<>>

ExtIdle == NormIdle /\ QuizIdle /\ RaceIdle

(***************************************************************************)
(* SpecSrs: one mastery record, created with the column defaults, taken    *)
(* through any sequence of grading events while the clock advances.        *)
(***************************************************************************)
InitSrs ==
    /\ today = 0
    /\ item = UserItem(1, 1, 1)
    /\ before = UserItem(1, 1, 1)
    /\ last = "none"
    /\ run = 0
    /\ updated_on = NULL
    /\ ValIdle
    /\ DbIdle
    /\ ExtIdle

Tick ==
    /\ today < MaxDay
    /\ today' = today + 1
    /\ UNCHANGED <<srs_vars, val_vars, db_vars, ext_vars>>

GradeCorrect ==
    /\ item.success_streak < MaxStreak
    /\ item' = update_user_item_on_result(item, TRUE, today)
    /\ before' = item
    /\ last' = "correct"
    /\ run' = run + 1
    /\ updated_on' = today
    /\ UNCHANGED <<today, val_vars, db_vars, ext_vars>>

GradeIncorrect ==
    /\ item' = update_user_item_on_result(item, FALSE, today)
    /\ before' = item
    /\ last' = "incorrect"
    /\ run' = 0
    /\ updated_on' = today
    /\ UNCHANGED <<today, val_vars, db_vars, ext_vars>>

NextSrs == Tick \/ GradeCorrect \/ GradeIncorrect

SpecSrs == InitSrs /\ [][NextSrs]_vars

(***************************************************************************)
(* SpecValidate: validate_answer applied to one question and one response  *)
(* drawn from the questions add_question can store and the values a JSON   *)
(* body can carry.                                                         *)
(***************************************************************************)
RECURSIVE SeqsUpTo(_, _)
SeqsUpTo(S, n) ==
    IF n = 0 THEN {<<>>}
    ELSE LET shorter == SeqsUpTo(S, n - 1)
         IN  shorter \cup {Append(x, e) : x \in shorter, e \in S}

\* rows of answer_components: MCQOption, ClozeBlank, WordMatchPair
MCQOption(id, position, is_correct) ==
    [id |-> id, position |-> position, is_correct |-> is_correct,
     correct_answer |-> <<>>, alternate_answers |-> <<>>]

ClozeBlank(id, position, correct_answer, alternates) ==
    [id |-> id, position |-> position, is_correct |-> FALSE,
     correct_answer |-> correct_answer, alternate_answers |-> alternates]

WordMatchPair(id, position) ==
    [id |-> id, position |-> position, is_correct |-> FALSE,
     correct_answer |-> <<>>, alternate_answers |-> <<>>]

\* rows of questions with their answer_components, as add_question builds them
\* (first is the id the table gave to the question's first component)
MultipleChoiceQuestion(id, quiz_id, first, n, flagged) ==
    [id |-> id, quiz_id |-> quiz_id, type |-> "multiple_choice", case_sensitive |-> FALSE,
     answer_components |-> [k \in 1..n |-> MCQOption(first + k - 1, k - 1, k \in flagged)]]

ClozeQuestion(id, quiz_id, first, words) ==
    [id |-> id, quiz_id |-> quiz_id, type |-> "cloze", case_sensitive |-> FALSE,
     answer_components |->
         [k \in 1..Len(words) |-> ClozeBlank(first + k - 1, k - 1, words[k], <<>>)]]

WordMatchQuestion(id, quiz_id, first, n) ==
    [id |-> id, quiz_id |-> quiz_id, type |-> "word_match", case_sensitive |-> FALSE,
     answer_components |-> [k \in 1..n |-> WordMatchPair(first + k - 1, k - 1)]]

QuestionBase(id, quiz_id) ==
    [id |-> id, quiz_id |-> quiz_id, type |-> "base", case_sensitive |-> FALSE,
     answer_components |-> <<>>]

Cat == <<"c", "a", "t">>
Mat == <<"m", "a", "t">>
Mut == <<"m", "u", "t">>
Dog == <<"d", "o", "g">>
Cut == <<"c", "u", "t">>
Cot == <<"c", "o", "t">>
Cub == <<"c", "u", "b">>
CapCat == <<"C", "a", "t">>
CutBang == <<"c", "u", "t", "!">>
CatBang == <<"c", "a", "t", "!">>
PaddedCat == <<" ", "c", "a", "t", " ">>
Garden == <<"g", "a", "r", "d", "e", "n">>
Gardxx == <<"g", "a", "r", "d", "x", "x">>
House == <<"h", "o", "u", "s", "e">>
Hoxxe == <<"h", "o", "x", "x", "e">>

\* submissions for one blank: empty, whitespace only, punctuation only, then
\* words at distance 0, 1, 2 and more of the answers below
BlankAnswers ==
    {<<>>, <<" ">>, <<"\t">>, <<".">>, <<" ", ".", " ">>, <<"a">>, <<"b">>,
     Cat, CapCat, Cut, Cot, Cub, Dog, Mat, Mut, CutBang, CatBang, PaddedCat,
     Garden, Gardxx, House, Hoxxe}

\* cloze questions of one blank: with an alternate answer, with a canonical
\* answer of one character, of six and of five characters, with a capital
\* letter; and the last with case_sensitive set, which add_question never
\* does (quizzes.py line 180) and only the ORM can store
BlankQuestions ==
    {[ClozeQuestion(1, 1, 1, <<Cat>>) EXCEPT !.answer_components[1].alternate_answers = <<Cut>>],
     ClozeQuestion(1, 1, 1, <<<<"a">>>>),
     ClozeQuestion(1, 1, 1, <<Garden>>),
     ClozeQuestion(1, 1, 1, <<House>>),
     ClozeQuestion(1, 1, 1, <<CapCat>>),
     [ClozeQuestion(1, 1, 1, <<CapCat>>) EXCEPT !.case_sensitive = TRUE]}

\* the questions add_question stores (a multiple choice question has at least
\* one option, schemas/quiz.py) and a row of the base class, which only the
\* ORM can store
ValQuestions ==
    {MultipleChoiceQuestion(1, 1, 1, MaxOptions, flagged) : flagged \in SUBSET (1..MaxOptions)}
    \cup {ClozeQuestion(1, 1, 1, words) : words \in {<<>>, <<Cat>>, <<Cat, Mat>>}}
    \cup {WordMatchQuestion(1, 1, 1, n) : n \in 0..MaxPairs}
    \cup {QuestionBase(1, 1)}
    \cup BlankQuestions

\* one element of a word match response: {"left": l, "right": r}
Match(l, r) == PyDict([key \in {"left", "right"} |-> IF key = "left" THEN l ELSE r])

MatchPool ==
    {Match(PyStr(<<Str(k)>>), PyStr(<<Str(k)>>)) : k \in 0..(MaxPairs - 1)}
    \cup {Match(PyStr(<<"1">>), PyStr(<<"2">>)),
          Match(PyStr(<<"x">>), PyStr(<<"x">>)),
          Match(PyNone, PyStr(<<"0">>)),
          PyDict([key \in {"left"} |-> PyStr(<<"0">>)]),
          Match(PyStr(<<"9">>), PyStr(<<"9">>)),
          Match(PyStr(<<"-", "1">>), PyStr(<<"-", "1">>)),
          PyStr(<<"0", "0">>),
          PyNone}

ValResponses ==
    {PyNone, PyInt(1), PyInt(2), PyStr(Cat)}
    \cup {PyList(ids) : ids \in SeqsUpTo({PyInt(k) : k \in 1..MaxOptions}, MaxListLen)}
    \cup {PyList(<<PyList(<<PyInt(1)>>)>>), PyList(<<PyInt(1), PyDict(<<>>)>>),
          PyList(<<PyStr(<<"1">>)>>), PyList(<<PyInt(MaxOptions + 1)>>)}
    \cup {PyDict(<<>>),
          PyDict([key \in {"0"} |-> PyStr(Cat)]),
          PyDict([key \in {"0"} |-> PyStr(Dog)]),
          PyDict([key \in {"0", "1"} |-> IF key = "0" THEN PyStr(Cat) ELSE PyStr(Mut)]),
          PyDict([key \in {"0", "1"} |-> IF key = "0" THEN PyStr(Cat) ELSE PyStr(Dog)]),
          PyDict([key \in {"1"} |-> PyStr(Mat)]),
          PyDict([key \in {"0"} |-> PyInt(3)]),
          PyDict([key \in {"0", "1"} |-> IF key = "0" THEN PyStr(Cat) ELSE PyNone]),
          PyDict([key \in {"0"} |-> PyList(<<PyStr(Cat)>>)])}
    \cup {PyDict([key \in {"0"} |-> PyStr(cs)]) : cs \in BlankAnswers}
    \cup {PyList(ms) : ms \in SeqsUpTo(MatchPool, 2)}
    \cup {PyList([k \in 1..n |-> Match(PyStr(<<Str(k - 1)>>), PyStr(<<Str(k - 1)>>))]) :
             n \in 0..MaxPairs}

InitValidate ==
    /\ today = 0
    /\ SrsIdle
    /\ DbIdle
    /\ val_question \in ValQuestions
    /\ val_response \in ValResponses
    /\ val_result = NoResult
    /\ ExtIdle

Validate ==
    /\ val_result = NoResult
    /\ val_result' = validate_answer(val_question, val_response)
    /\ UNCHANGED <<today, srs_vars, db_vars, val_question, val_response, ext_vars>>

NextValidate == Validate

SpecValidate == InitValidate /\ [][NextValidate]_vars

(***************************************************************************)
(* Spec: the attempt routes and clear-results over the tables, one request *)
(* at a time.  Users, quizzes and questions are the rows earlier requests  *)
(* (register, create_quiz, add_question) left in the database.             *)
(***************************************************************************)
Users == {1, 2}

\* table quizzes
Quizzes ==
    [quiz_id \in {1, 2} |->
        IF quiz_id = 1 THEN [id |-> 1, creator_id |-> 1, title |-> "A", is_public |-> TRUE]
        ELSE [id |-> 2, creator_id |-> 2, title |-> "A", is_public |-> FALSE]]

\* table questions (with answer_components)
Questions ==
    [question_id \in 1..3 |->
        CASE question_id = 1 -> MultipleChoiceQuestion(1, 1, 1, 2, {1})
          [] question_id = 2 -> ClozeQuestion(2, 1, 3, <<Cat>>)
          [] OTHER -> QuestionBase(3, 2)]

\* the ids a request can name: those of the rows and one that matches no row
QuizIds == DOMAIN Quizzes \cup {0}
QuestionIds == DOMAIN Questions \cup {0}
AttemptIds == 1..MaxAttempts

\* the "response" values of the submit-question bodies: the correct and a
\* wrong selection for question 1, both of them malformed for question 2
SubmitResponses ==
    {PyList(<<PyInt(1)>>),
     PyList(<<PyInt(2)>>)}

QuizAttempt(id, user_id, quiz_id) ==
    [id |-> id, user_id |-> user_id, quiz_id |-> quiz_id, completed_at |-> NULL,
     score |-> FromDecimal(0, 1)]

\* the user_response column holds the JSON text of the response (a str as it
\* is); the row keeps the value that text encodes
UserAnswer(id, attempt_id, question_id, user_response, was_correct, feedback) ==
    [id |-> id, attempt_id |-> attempt_id, question_id |-> question_id,
     user_response |-> user_response, was_correct |-> was_correct, feedback |-> feedback]

\* the primary key the database gives the next row of a table (SQLite rowid:
\* one more than the largest id in the table)
NextId(rows) == IF rows = <<>> THEN 1 ELSE rows[Len(rows)].id + 1

Reply(status, correct, details, attempt_id, questions) ==
    [status |-> status, correct |-> correct, details |-> details,
     attempt_id |-> attempt_id, questions |-> questions]

ErrorReply(status) == Reply(status, FALSE, <<>>, 0, <<>>)

\* quiz.questions
QuestionsOf(quiz_id) ==
    LET ids == {q \in DOMAIN Questions : Questions[q].quiz_id = quiz_id}
    IN  [k \in 1..Cardinality(ids) |->
            CHOOSE q \in ids : Cardinality({p \in ids : p < q}) = k - 1]

InitDb ==
    /\ today = 0
    /\ SrsIdle
    /\ ValIdle
    /\ user_items = <<>>
    /\ attempts = <<>>
    /\ answers = <<>>
    /\ reply = NoReply
    /\ graded = {}
    /\ inserted = [attempts |-> 0, answers |-> 0]
    /\ ExtIdle

TickDb ==
    /\ today < MaxDbDay
    /\ today' = today + 1
    /\ UNCHANGED <<srs_vars, val_vars, db_vars, ext_vars>>

\* POST /attempts/<quiz_id>/start
start_attempt(user, quiz_id) ==
    /\ inserted.attempts < MaxAttempts
    /\ IF quiz_id \notin DOMAIN Quizzes
       THEN /\ reply' = ErrorReply(404)
            /\ UNCHANGED <<attempts, inserted>>
       ELSE LET attempt == QuizAttempt(NextId(attempts), user, quiz_id)
                qs == QuestionsOf(quiz_id)
            IN  /\ attempts' = Append(attempts, attempt)
                /\ inserted' = [inserted EXCEPT !.attempts = @ + 1]
                /\ reply' = Reply(201, FALSE, <<>>, attempt.id,
                                  [k \in 1..Len(qs) |->
                                      [id |-> qs[k], type |-> Questions[qs[k]].type]])
    /\ UNCHANGED <<today, srs_vars, val_vars, user_items, answers, graded, ext_vars>>

\* UpsertUserItem that stores a new row without putting it through the scheduler
UpsertUserItem_create_only(rows, user, question_id, was_correct, day) ==
    LET found == {k \in 1..Len(rows) :
                     rows[k].user_id = user /\ rows[k].question_id = question_id}
        k == CHOOSE m \in found : \A n \in found : m <= n
    IN  IF found = {} THEN Append(rows, UserItem(NextId(rows), user, question_id))
        ELSE [rows EXCEPT ![k] = update_user_item_on_result(@, was_correct, day)]

\* UpsertUserItem that never looks the row up and always stores a new one
UpsertUserItem_always_insert(rows, user, question_id, was_correct, day) ==
    Append(rows, update_user_item_on_result(UserItem(NextId(rows), user, question_id),
                                            was_correct, day))

\* UpsertUserItem that puts every row of the user through the scheduler
UpsertUserItem_all_of_user(rows, user, question_id, was_correct, day) ==
    LET found == {k \in 1..Len(rows) :
                     rows[k].user_id = user /\ rows[k].question_id = question_id}
        all == IF found # {} THEN rows
               ELSE Append(rows, UserItem(NextId(rows), user, question_id))
    IN  [k \in 1..Len(all) |->
            IF all[k].user_id = user
            THEN update_user_item_on_result(all[k], was_correct, day) ELSE all[k]]

\* "update or create UserItem" of submit_question: the first row of the
\* pair, or a new row with the column defaults, put through the scheduler
UpsertUserItem(rows, user, question_id, was_correct, day) ==
    LET found == {k \in 1..Len(rows) :
                     rows[k].user_id = user /\ rows[k].question_id = question_id}
        k == IF found # {} THEN CHOOSE m \in found : \A n \in found : m <= n
             ELSE Len(rows) + 1
        all == IF found # {} THEN rows
               ELSE Append(rows, UserItem(NextId(rows), user, question_id))
    IN  [all EXCEPT ![k] = update_user_item_on_result(@, was_correct, day)]

\* POST /attempts/<attempt_id>/submit-question
submit_question(user, attempt_id, question_id, response) ==
    /\ inserted.answers < MaxAnswers
    /\ LET found == {k \in 1..Len(attempts) : attempts[k].id = attempt_id}
       IN  IF found = {}
           THEN /\ reply' = ErrorReply(404)
                /\ UNCHANGED <<user_items, answers, graded, inserted>>
           ELSE IF attempts[CHOOSE k \in found : TRUE].user_id # user
           THEN /\ reply' = ErrorReply(403)
                /\ UNCHANGED <<user_items, answers, graded, inserted>>
           ELSE IF question_id \notin DOMAIN Questions
           THEN /\ reply' = ErrorReply(404)
                /\ UNCHANGED <<user_items, answers, graded, inserted>>
           ELSE LET res == validate_answer(Questions[question_id], response)
                    was_correct == IF res.exc = "None" THEN res.is_correct ELSE FALSE
                    feedback == IF res.exc = "None" THEN res.feedback
                                ELSE Feedback("Error validating answer: {}", <<res.exc>>)
                    details == IF res.exc = "None" /\ res.arity = 3 THEN res.details
                               ELSE <<>>
                IN  /\ answers' = Append(answers,
                           UserAnswer(NextId(answers), attempt_id, question_id, response,
                                      was_correct, feedback))
                    /\ user_items' = UpsertUserItem(user_items, user, question_id,
                                                    was_correct, today)
                    /\ reply' = Reply(200, was_correct, details, 0, <<>>)
                    /\ graded' = graded \cup {<<user, question_id>>}
                    /\ inserted' = [inserted EXCEPT !.answers = @ + 1]
    /\ UNCHANGED <<today, srs_vars, val_vars, attempts, ext_vars>>

\* DELETE /quizzes/<quiz_id>/clear-results: the user's attempts on the quiz
\* go, their answers with them (cascade), and the user's mastery records for
\* the questions of the quiz
clear_quiz_results(user, quiz_id) ==
    /\ IF quiz_id \notin DOMAIN Quizzes
       THEN /\ reply' = ErrorReply(404)
            /\ UNCHANGED <<user_items, attempts, answers, graded>>
       ELSE LET deleted == {attempts[k].id : k \in {n \in 1..Len(attempts) :
                               attempts[n].quiz_id = quiz_id /\ attempts[n].user_id = user}}
                question_ids == {q \in DOMAIN Questions : Questions[q].quiz_id = quiz_id}
            IN  /\ attempts' = SelectSeq(attempts, LAMBDA a : a.id \notin deleted)
                /\ answers' = SelectSeq(answers, LAMBDA a : a.attempt_id \notin deleted)
                /\ user_items' = SelectSeq(user_items, LAMBDA r :
                       ~(r.user_id = user /\ r.question_id \in question_ids))
                /\ graded' = {g \in graded : ~(g[1] = user /\ g[2] \in question_ids)}
                /\ reply' = Reply(200, FALSE, <<>>, 0, <<>>)
    /\ UNCHANGED <<today, srs_vars, val_vars, inserted, ext_vars>>

Next ==
    \/ TickDb
    \/ \E user \in Users, quiz_id \in QuizIds : start_attempt(user, quiz_id)
    \/ \E user \in Users, attempt_id \in AttemptIds, question_id \in QuestionIds,
          response \in SubmitResponses :
            submit_question(user, attempt_id, question_id, response)
    \/ \E user \in Users, quiz_id \in QuizIds : clear_quiz_results(user, quiz_id)

Spec == InitDb /\ [][Next]_vars

(***************************************************************************)
(* SpecAttempt: the life of an attempt, start, submit-question and finish, *)
(* on quiz 1 and its multiple choice question, one request at a time.      *)
(* finish writes completed_at and score, columns no other route reads.     *)
(***************************************************************************)
\* attempt.answers
AttemptAnswers(attempt_id) == SelectSeq(answers, LAMBDA a : a.attempt_id = attempt_id)

\* sum(1 for a in attempt.answers if a.was_correct)
CorrectCount(rows) == Len(SelectSeq(rows, LAMBDA a : a.was_correct))

\* compute_score with the floor division of integers
compute_score_floor_division(rows) ==
    IF Len(rows) # 0 THEN FromDecimal(CorrectCount(rows) \div Len(rows), 1)
    ELSE FromDecimal(0, 1)

\* "compute score" of finish_attempt: the true division of two ints, or 0.0
compute_score(rows) ==
    IF Len(rows) # 0 THEN FromDecimal(CorrectCount(rows), Len(rows))
    ELSE FromDecimal(0, 1)

FinishReply(attempt_id, score, correct, total) ==
    [status |-> 200, attempt_id |-> attempt_id, score |-> score, correct |-> correct,
     total |-> total]

\* POST /attempts/<attempt_id>/finish; completed_at is kept as a day number
finish_attempt(user, attempt_id) ==
    /\ LET found == {k \in 1..Len(attempts) : attempts[k].id = attempt_id}
           k == CHOOSE n \in found : TRUE
           rows == AttemptAnswers(attempt_id)
       IN  IF found = {}
           THEN /\ reply' = ErrorReply(404)
                /\ UNCHANGED attempts
           ELSE IF attempts[k].user_id # user
           THEN /\ reply' = ErrorReply(403)
                /\ UNCHANGED attempts
           ELSE /\ attempts' = [attempts EXCEPT ![k].completed_at = today,
                                                ![k].score = compute_score(rows)]
                /\ reply' = FinishReply(attempt_id, compute_score(rows),
                                        CorrectCount(rows), Len(rows))
    /\ UNCHANGED <<today, srs_vars, val_vars, user_items, answers, graded, inserted,
                   ext_vars>>

NextAttempt ==
    \/ \E user \in Users : start_attempt(user, 1)
    \/ \E user \in Users, attempt_id \in AttemptIds, response \in SubmitResponses :
            submit_question(user, attempt_id, 1, response)
    \/ \E user \in Users, attempt_id \in AttemptIds : finish_attempt(user, attempt_id)

SpecAttempt == InitDb /\ [][NextAttempt]_vars

(***************************************************************************)
(* SpecQuiz: the quiz routes get_quiz, add_question, update_quiz,          *)
(* delete_quiz and delete_question over the tables quizzes and questions,  *)
(* one request at a time.  The tables start with the rows of Quizzes and   *)
(* those of Questions within the id bound; request bodies are ones the    *)
(* input schemas accept, and the token identities are user ids.  Text and  *)
(* image columns other than the title and the blank answers are not        *)
(* carried.                                                                *)
(***************************************************************************)
\* QuestionBase.to_dict
QuestionBase_to_dict(q) == [id |-> q.id, type |-> q.type]

\* AnswerComponentBase.to_dict
AnswerComponentBase_to_dict(c) == [id |-> c.id, position |-> c.position]

\* MCQOption.to_dict
MCQOption_to_dict(c) ==
    [id |-> c.id, position |-> c.position, is_correct |-> c.is_correct]

\* ClozeBlank.to_dict
ClozeBlank_to_dict(c) ==
    [id |-> c.id, position |-> c.position, correct_answer |-> c.correct_answer,
     alternates |-> c.alternate_answers]

\* WordMatchPair.to_dict
WordMatchPair_to_dict(c) == AnswerComponentBase_to_dict(c)

\* the polymorphic q.to_dict()
to_dict(q) ==
    CASE q.type = "multiple_choice" ->
            LET opts == SortedByPosition(q.answer_components)
            IN  [id |-> q.id, type |-> q.type,
                 options |-> [k \in 1..Len(opts) |-> MCQOption_to_dict(opts[k])]]
      [] q.type = "cloze" ->
            LET blanks == SortedByPosition(q.answer_components)
            IN  [id |-> q.id, type |-> q.type, case_sensitive |-> q.case_sensitive,
                 cloze_blanks |-> [k \in 1..Len(blanks) |-> ClozeBlank_to_dict(blanks[k])]]
      [] q.type = "word_match" ->
            [id |-> q.id, type |-> q.type,
             word_pairs |-> [k \in 1..Len(q.answer_components) |->
                                WordMatchPair_to_dict(q.answer_components[k])]]
      [] OTHER -> QuestionBase_to_dict(q)

\* what get_quiz puts into out["questions"] for one question: to_dict(), and
\* for a cloze question the nested cloze_question in place of cloze_blanks
QuestionOut(q) ==
    LET qdata == to_dict(q)
    IN  IF q.type = "cloze"
        THEN [id |-> qdata.id, type |-> qdata.type, case_sensitive |-> qdata.case_sensitive,
              cloze_question |->
                  [cloze_words |->
                      [k \in 1..Len(qdata.cloze_blanks) |->
                          [word |-> qdata.cloze_blanks[k].correct_answer,
                           alternates |-> qdata.cloze_blanks[k].alternates]]]]
        ELSE qdata

\* the indices of the rows with a primary key
RowsById(rows, id) == {k \in 1..Len(rows) : rows[k].id = id}

\* quiz.questions (every question has position 0: in id order)
QuestionsIn(rows, quiz_id) == SelectSeq(rows, LAMBDA q : q.quiz_id = quiz_id)

\* the primary key the database gives the next row of answer_components
NextComponentId(rows) ==
    LET used == UNION {{rows[k].answer_components[n].id :
                               n \in 1..Len(rows[k].answer_components)} :
                           k \in 1..Len(rows)}
    IN  IF used = {} THEN 1 ELSE (CHOOSE m \in used : \A n \in used : n <= m) + 1

\* the "type" of the add-question bodies; a multiple_choice body has two
\* options with the first flagged, a cloze body one blank, a word_match body
\* one pair
QuestionTypes == {"multiple_choice", "cloze", "word_match", "free_response"}

\* the JSON bodies of update-quiz: each key absent (<<>>) or present
UpdateBodies ==
    [title : {<<>>, <<"B">>}, is_public : {<<>>, <<FALSE>>}]

InitQuiz ==
    /\ today = 0
    /\ SrsIdle
    /\ ValIdle
    /\ DbIdle
    /\ NormIdle
    /\ RaceIdle
    /\ quiz_rows = [k \in 1..2 |-> Quizzes[k]]
    /\ question_rows = SelectSeq([k \in 1..3 |-> Questions[k]],
                               LAMBDA q : q.id <= MaxQuestionId)
    /\ quiz_reply = NoQuizReply

\* GET /quizzes/<quiz_id>; user is NULL for a request without a token
get_quiz(user, quiz_id) ==
    /\ LET found == RowsById(quiz_rows, quiz_id)
           quiz == quiz_rows[CHOOSE k \in found : TRUE]
           qs == QuestionsIn(question_rows, quiz_id)
       IN  IF found = {}
           THEN quiz_reply' = QuizReply("get_quiz", 404, <<>>, <<>>)
           ELSE IF ~quiz.is_public /\ user # quiz.creator_id
           THEN quiz_reply' = QuizReply("get_quiz", 403, <<>>, <<>>)
           ELSE quiz_reply' = QuizReply("get_quiz", 200, <<quiz>>,
                                        [k \in 1..Len(qs) |-> QuestionOut(qs[k])])
    /\ UNCHANGED <<today, srs_vars, val_vars, db_vars, norm, quiz_rows, question_rows,
                   sessions>>

\* add_question without the comparison of quiz.creator_id with the identity
add_question_no_owner_check(user, quiz_id, type) ==
    /\ LET found == RowsById(quiz_rows, quiz_id)
           id == NextId(question_rows)
           first == NextComponentId(question_rows)
       IN  IF found = {}
           THEN /\ quiz_reply' = QuizReply("add_question", 404, <<>>, <<>>)
                /\ UNCHANGED question_rows
           ELSE IF type \notin {"multiple_choice", "cloze", "word_match"}
           THEN /\ quiz_reply' = QuizReply("add_question", 400, <<>>, <<>>)
                /\ UNCHANGED question_rows
           ELSE /\ id <= MaxQuestionId
                /\ question_rows' = Append(question_rows,
                       CASE type = "multiple_choice" ->
                                MultipleChoiceQuestion(id, quiz_id, first, 2, {1})
                         [] type = "cloze" -> ClozeQuestion(id, quiz_id, first, <<Cat>>)
                         [] OTHER -> WordMatchQuestion(id, quiz_id, first, 1))
                /\ quiz_reply' = QuizReply("add_question", 201, <<[id |-> id]>>, <<>>)
    /\ UNCHANGED <<today, srs_vars, val_vars, db_vars, norm, quiz_rows, sessions>>

\* POST /quizzes/<quiz_id>/questions
add_question(user, quiz_id, type) ==
    /\ LET found == RowsById(quiz_rows, quiz_id)
           id == NextId(question_rows)
           first == NextComponentId(question_rows)
       IN  IF found = {}
           THEN /\ quiz_reply' = QuizReply("add_question", 404, <<>>, <<>>)
                /\ UNCHANGED question_rows
           ELSE IF quiz_rows[CHOOSE k \in found : TRUE].creator_id # user
           THEN /\ quiz_reply' = QuizReply("add_question", 403, <<>>, <<>>)
                /\ UNCHANGED question_rows
           ELSE IF type \notin {"multiple_choice", "cloze", "word_match"}
           THEN /\ quiz_reply' = QuizReply("add_question", 400, <<>>, <<>>)
                /\ UNCHANGED question_rows
           ELSE /\ id <= MaxQuestionId
                /\ question_rows' = Append(question_rows,
                       CASE type = "multiple_choice" ->
                                MultipleChoiceQuestion(id, quiz_id, first, 2, {1})
                         [] type = "cloze" -> ClozeQuestion(id, quiz_id, first, <<Cat>>)
                         [] OTHER -> WordMatchQuestion(id, quiz_id, first, 1))
                /\ quiz_reply' = QuizReply("add_question", 201, <<[id |-> id]>>, <<>>)
    /\ UNCHANGED <<today, srs_vars, val_vars, db_vars, norm, quiz_rows, sessions>>

\* PUT /quizzes/<quiz_id>
update_quiz(user, quiz_id, data) ==
    /\ LET found == RowsById(quiz_rows, quiz_id)
           k == CHOOSE n \in found : TRUE
           updated == [quiz_rows[k] EXCEPT
                          !.title = IF data.title # <<>> THEN data.title[1] ELSE @,
                          !.is_public = IF data.is_public # <<>> THEN data.is_public[1]
                                        ELSE @]
       IN  IF found = {}
           THEN /\ quiz_reply' = QuizReply("update_quiz", 404, <<>>, <<>>)
                /\ UNCHANGED quiz_rows
           ELSE IF quiz_rows[k].creator_id # user
           THEN /\ quiz_reply' = QuizReply("update_quiz", 403, <<>>, <<>>)
                /\ UNCHANGED quiz_rows
           ELSE /\ quiz_rows' = [quiz_rows EXCEPT ![k] = updated]
                /\ quiz_reply' = QuizReply("update_quiz", 200,
                                           <<[id |-> quiz_id, title |-> updated.title]>>,
                                           <<>>)
    /\ UNCHANGED <<today, srs_vars, val_vars, db_vars, norm, question_rows, sessions>>

\* DELETE /quizzes/<quiz_id>: the questions of the quiz go with it (cascade)
delete_quiz(user, quiz_id) ==
    /\ LET found == RowsById(quiz_rows, quiz_id)
       IN  IF found = {}
           THEN /\ quiz_reply' = QuizReply("delete_quiz", 404, <<>>, <<>>)
                /\ UNCHANGED <<quiz_rows, question_rows>>
           ELSE IF quiz_rows[CHOOSE k \in found : TRUE].creator_id # user
           THEN /\ quiz_reply' = QuizReply("delete_quiz", 403, <<>>, <<>>)
                /\ UNCHANGED <<quiz_rows, question_rows>>
           ELSE /\ quiz_rows' = SelectSeq(quiz_rows, LAMBDA r : r.id # quiz_id)
                /\ question_rows' = SelectSeq(question_rows, LAMBDA q : q.quiz_id # quiz_id)
                /\ quiz_reply' = QuizReply("delete_quiz", 200, <<>>, <<>>)
    /\ UNCHANGED <<today, srs_vars, val_vars, db_vars, norm, sessions>>

\* DELETE /quizzes/<quiz_id>/questions/<question_id>
delete_question(user, quiz_id, question_id) ==
    /\ LET found == RowsById(quiz_rows, quiz_id)
           questions == RowsById(question_rows, question_id)
       IN  IF found = {}
           THEN /\ quiz_reply' = QuizReply("delete_question", 404, <<>>, <<>>)
                /\ UNCHANGED question_rows
           ELSE IF quiz_rows[CHOOSE k \in found : TRUE].creator_id # user
           THEN /\ quiz_reply' = QuizReply("delete_question", 403, <<>>, <<>>)
                /\ UNCHANGED question_rows
           ELSE IF questions = {}
           THEN /\ quiz_reply' = QuizReply("delete_question", 404, <<>>, <<>>)
                /\ UNCHANGED question_rows
           ELSE IF question_rows[CHOOSE k \in questions : TRUE].quiz_id # quiz_id
           THEN /\ quiz_reply' = QuizReply("delete_question", 400, <<>>, <<>>)
                /\ UNCHANGED question_rows
           ELSE /\ question_rows' = SelectSeq(question_rows, LAMBDA q : q.id # question_id)
                /\ quiz_reply' = QuizReply("delete_question", 200, <<>>, <<>>)
    /\ UNCHANGED <<today, srs_vars, val_vars, db_vars, norm, quiz_rows, sessions>>

QuizRequestIds == {1, 2}
QuestionRequestIds == 1..MaxQuestionId

NextQuiz ==
    \/ \E user \in Users \cup {NULL}, quiz_id \in QuizRequestIds : get_quiz(user, quiz_id)
    \/ \E user \in Users, quiz_id \in QuizRequestIds, type \in QuestionTypes :
            add_question(user, quiz_id, type)
    \/ \E user \in Users, quiz_id \in QuizRequestIds, data \in UpdateBodies :
            update_quiz(user, quiz_id, data)
    \/ \E user \in Users, quiz_id \in QuizRequestIds : delete_quiz(user, quiz_id)
    \/ \E user \in Users, quiz_id \in QuizRequestIds, question_id \in QuestionRequestIds :
            delete_question(user, quiz_id, question_id)

SpecQuiz == InitQuiz /\ [][NextQuiz]_vars

(***************************************************************************)
(* SpecRace: two submit-question requests of user 1 for question 1 under   *)
(* attempt 1, served at the same time, each in a database session of its   *)
(* own, statement by statement.  The database is the one DATABASE_URL      *)
(* names: SQLite (the default), where the first write of a transaction     *)
(* takes the write lock of the file and a second writer waits for the      *)
(* commit, or a server at READ COMMITTED, where a session reads the        *)
(* committed rows and its own.  The session autoflushes (the default), so  *)
(* the pending UserAnswer is inserted by the query of the lookup.          *)
(***************************************************************************)
Engines == {"sqlite", "read_committed"}

Requests == {1, 2}

\* a request before its handler has run
NewRequest ==
    [pc |-> "validate", was_correct |-> FALSE, answer |-> <<>>, loaded |-> <<>>,
     item |-> <<>>, created |-> FALSE]

\* the user_items table with one more row, in id order
InsertById(rows, row) ==
    SelectSeq(rows, LAMBDA r : r.id < row.id) \o <<row>>
        \o SelectSeq(rows, LAMBDA r : r.id > row.id)

\* the UPDATE the flush emits for a loaded row: the columns whose value is
\* no longer the loaded one are set, the others are left as they are stored
FlushUpdate(rows, loaded, changed) ==
    [k \in 1..Len(rows) |->
        IF rows[k].id # changed.id THEN rows[k]
        ELSE [col \in DOMAIN rows[k] |->
                 IF changed[col] # loaded[col] THEN changed[col] ELSE rows[k][col]]]

InitRace ==
    /\ today = 0
    /\ SrsIdle
    /\ ValIdle
    /\ NormIdle
    /\ QuizIdle
    /\ user_items \in {<<>>, <<UserItem(1, 1, 1)>>,
                       <<update_user_item_on_result(UserItem(1, 1, 1), TRUE, 0)>>}
    /\ attempts = <<QuizAttempt(1, 1, 1)>>
    /\ answers = <<>>
    /\ reply = NoReply
    /\ graded = {}
    /\ inserted = [attempts |-> 1, answers |-> 0]
    /\ \E engine \in Engines :
           sessions = [engine |-> engine, initial |-> user_items, lock |-> 0,
                       requests |-> [i \in Requests |-> NewRequest]]

\* submit_question up to db.session.add(ua): the attempt is the user's, the
\* question exists, the response is graded
submit_question_validate(i, response) ==
    /\ sessions.requests[i].pc = "validate"
    /\ LET res == validate_answer(Questions[1], response)
           was_correct == IF res.exc = "None" THEN res.is_correct ELSE FALSE
           feedback == IF res.exc = "None" THEN res.feedback
                       ELSE Feedback("Error validating answer: {}", <<res.exc>>)
       IN  sessions' = [sessions EXCEPT !.requests[i] =
               [@ EXCEPT !.pc = "lookup", !.was_correct = was_correct,
                         !.answer = <<[response |-> response, feedback |-> feedback]>>]]
    /\ UNCHANGED <<today, srs_vars, val_vars, db_vars, norm, quiz_rows, question_rows,
                   quiz_reply>>

\* UserItem.query.filter_by(...).first(): the autoflush inserts the pending
\* UserAnswer (the session's first write), then the SELECT runs
submit_question_lookup(i) ==
    /\ sessions.requests[i].pc = "lookup"
    /\ sessions.engine = "sqlite" => sessions.lock = 0
    /\ LET found == {k \in 1..Len(user_items) :
                        user_items[k].user_id = 1 /\ user_items[k].question_id = 1}
           k == CHOOSE m \in found : \A n \in found : m <= n
       IN  sessions' = [sessions EXCEPT
               !.lock = IF sessions.engine = "sqlite" THEN i ELSE @,
               !.requests[i] =
                   IF found = {} THEN [@ EXCEPT !.pc = "create"]
                   ELSE [@ EXCEPT !.pc = "advance", !.loaded = <<user_items[k]>>,
                                  !.item = <<user_items[k]>>]]
    /\ UNCHANGED <<today, srs_vars, val_vars, db_vars, norm, quiz_rows, question_rows,
                   quiz_reply>>

\* item = UserItem(...); db.session.add(item); db.session.flush(): the row is
\* inserted in the session's transaction and given the next id of the table
submit_question_create(i) ==
    /\ sessions.requests[i].pc = "create"
    /\ LET pending == {sessions.requests[j].item[1].id :
                          j \in {r \in Requests : sessions.requests[r].created}}
           stored == {user_items[k].id : k \in 1..Len(user_items)}
           used == pending \cup stored
           id == IF used = {} THEN 1 ELSE (CHOOSE m \in used : \A n \in used : n <= m) + 1
       IN  sessions' = [sessions EXCEPT !.requests[i] =
               [@ EXCEPT !.pc = "advance", !.created = TRUE,
                         !.item = <<UserItem(id, 1, 1)>>]]
    /\ UNCHANGED <<today, srs_vars, val_vars, db_vars, norm, quiz_rows, question_rows,
                   quiz_reply>>

\* update_user_item_on_result(item, was_correct) on the session's object
submit_question_advance(i) ==
    /\ sessions.requests[i].pc = "advance"
    /\ sessions' = [sessions EXCEPT !.requests[i] =
           [@ EXCEPT !.pc = "commit",
                     !.item = <<update_user_item_on_result(@[1],
                                    sessions.requests[i].was_correct, today)>>]]
    /\ UNCHANGED <<today, srs_vars, val_vars, db_vars, norm, quiz_rows, question_rows,
                   quiz_reply>>

\* db.session.commit(): the flush writes the row as the session has it, the
\* transaction commits, and the request is answered 200
submit_question_commit(i) ==
    /\ sessions.requests[i].pc = "commit"
    /\ LET r == sessions.requests[i]
       IN  /\ user_items' = IF r.created THEN InsertById(user_items, r.item[1])
                            ELSE FlushUpdate(user_items, r.loaded[1], r.item[1])
           /\ answers' = Append(answers,
                  UserAnswer(NextId(answers), 1, 1, r.answer[1].response, r.was_correct,
                             r.answer[1].feedback))
           /\ reply' = Reply(200, r.was_correct, <<>>, 0, <<>>)
           /\ graded' = graded \cup {<<1, 1>>}
           /\ inserted' = [inserted EXCEPT !.answers = @ + 1]
    /\ sessions' = [sessions EXCEPT !.lock = 0, !.requests[i] = [@ EXCEPT !.pc = "done"]]
    /\ UNCHANGED <<today, srs_vars, val_vars, attempts, norm, quiz_rows, question_rows,
                   quiz_reply>>

NextRace ==
    \/ \E i \in Requests, response \in SubmitResponses : submit_question_validate(i, response)
    \/ \E i \in Requests : submit_question_lookup(i)
    \/ \E i \in Requests : submit_question_create(i)
    \/ \E i \in Requests : submit_question_advance(i)
    \/ \E i \in Requests : submit_question_commit(i)

SpecRace == InitRace /\ [][NextRace]_vars

(***************************************************************************)
(* SpecNormalize: ClozeBlank._normalize_answer applied to a string and     *)
(* then to its own result.                                                 *)
(***************************************************************************)
\* letters of both cases, the space, another whitespace character, punctuation
TextAlphabet == {"a", "A", " ", "\t", "."}

InitNormalize ==
    /\ today = 0
    /\ SrsIdle
    /\ ValIdle
    /\ DbIdle
    /\ QuizIdle
    /\ RaceIdle
    /\ norm \in {[text |-> cs, once |-> <<>>, twice |-> <<>>, done |-> FALSE] :
                    cs \in SeqsUpTo(TextAlphabet, MaxTextLen)}

Normalize ==
    /\ ~norm.done
    /\ norm' = [text |-> norm.text,
                once |-> _normalize_answer(norm.text),
                twice |-> _normalize_answer(_normalize_answer(norm.text)),
                done |-> TRUE]
    /\ UNCHANGED <<today, srs_vars, val_vars, db_vars, quiz_rows, question_rows,
                   quiz_reply, sessions>>

NextNormalize == Normalize

SpecNormalize == InitNormalize /\ [][NextNormalize]_vars

(***************************************************************************)
(* Scheduler properties (SpecSrs).                                         *)
(***************************************************************************)
Half(n) == <<n, Limb \div 2, 0, 0, 0>>      \* the real number n + 1/2

\* C1: an incorrect result sets success_streak = 0, interval_days = 1,
\* next_review_date = today + 1 and ease_factor = max(1.3, ease_factor - 0.1),
\* whatever the record held before (2.5 becomes 2.4).
C1_IncorrectOutcome ==
    last = "incorrect" =>
        LET lowered == FloatSub(before.ease_factor, EaseStep)
        IN  /\ item.success_streak = 0
            /\ item.interval_days = 1
            /\ item.next_review_date = updated_on + 1
            /\ item.ease_factor =
                   (IF FxLess(lowered, EaseFloor) THEN EaseFloor ELSE lowered)
            /\ before.ease_factor = FromDecimal(25, 10)
                   => item.ease_factor = FromDecimal(24, 10)

C1_Witness ==
    /\ last = "incorrect"
    /\ before.success_streak = 5
    /\ before.ease_factor = FromDecimal(25, 10)
    /\ before.interval_days > 1

\* C2: a correct result adds one to success_streak, keeps ease_factor, and
\* sets interval_days to 1 (new streak <= 1), 6 (new streak = 2), else to the
\* integer nearest to the float product previous_interval * ease (ties to the
\* even integer), at least 1; a fresh record gets 1, 6, round(6 * ease).
C2_CorrectOutcome ==
    last = "correct" =>
        LET n == item.interval_days
            p == FloatMulInt(before.interval_days, before.ease_factor)
        IN  /\ item.success_streak = before.success_streak + 1
            /\ item.ease_factor = before.ease_factor
            /\ item.success_streak <= 1 => n = 1
            /\ item.success_streak = 2 => n = 6
            /\ item.success_streak >= 3 =>
                   /\ n >= 1
                   /\ ~FxLess(p, Half(n - 1))
                   /\ ~FxLess(Half(n), p)
                   /\ p \in {Half(n - 1), Half(n)} => n % 2 = 0
            /\ (run = 1 /\ item.success_streak = 1) => n = 1
            /\ (run = 3 /\ item.success_streak = 3) => before.interval_days = 6

C2_Witness ==
    /\ last = "correct"
    /\ item.success_streak = 3
    /\ before.interval_days = 6
    /\ item.ease_factor = DefaultEase
    /\ item.interval_days = 15

\* C3: success_streak is non-negative and equals the number of consecutive
\* correct results since the most recent incorrect result (or creation).
C3_StreakIsRun ==
    /\ item.success_streak >= 0
    /\ item.success_streak = run

C3_Witness ==
    /\ last = "correct"
    /\ run = 2
    /\ FxLess(item.ease_factor, DefaultEase)

\* C4: the ease factor is never below 1.3 and never above the value it had
\* before the update.
C4_EaseFloor ==
    /\ ~FxLess(item.ease_factor, EaseFloor)
    /\ ~FxLess(before.ease_factor, item.ease_factor)

C4_Witness ==
    /\ last = "incorrect"
    /\ before.ease_factor = EaseFloor
    /\ item.ease_factor = EaseFloor

\* C5: after every scheduler update, correct or incorrect, next_review_date
\* is the day of the update plus the new interval_days.
C5_NextReviewDate ==
    last # "none" => item.next_review_date = updated_on + item.interval_days

C5_Witness ==
    /\ last = "correct"
    /\ updated_on = 1
    /\ item.interval_days = 15
    /\ item.next_review_date = 16

(***************************************************************************)
(* Validation properties (SpecValidate).                                   *)
(***************************************************************************)
Validated == val_result # NoResult

IsIdList(r) == r.t = "list" /\ \A k \in 1..Len(r.l) : r.l[k].t = "int"

\* the response does not have the shape the variant of q expects
Malformed(q, r) ==
    CASE q.type = "multiple_choice" -> ~(r.t = "int" \/ IsIdList(r))
      [] q.type = "cloze" ->
            r.t # "dict" \/ \E key \in DOMAIN r.d : r.d[key].t # "str"
      [] q.type = "word_match" ->
            r.t # "list" \/ \E k \in 1..Len(r.l) :
                \/ r.l[k].t # "dict"
                \/ {"left", "right"} \ DOMAIN r.l[k].d # {}
                \/ \E key \in {"left", "right"} : PyIntOf(r.l[k].d[key]).exc # "None"
      [] OTHER -> FALSE

\* C7: for each of the three variants and every malformed response shape,
\* validate_answer returns a (bool, string[, details]) tuple with
\* is_correct = False and raises nothing.
C7_NeverCrash ==
    (Validated /\ Malformed(val_question, val_response)) =>
        /\ val_result.exc = "None"
        /\ val_result.arity \in {2, 3}
        /\ ~val_result.is_correct

NoAnswerComponents(q) ==
    \/ q.type \in {"cloze", "word_match"} /\ q.answer_components = <<>>
    \/ q.type = "multiple_choice"
          /\ \A k \in 1..Len(q.answer_components) : ~q.answer_components[k].is_correct

\* C9: a question with no answer components (no blanks, no pairs, no option
\* or no option flagged correct) is graded is_correct = False for every
\* response, the empty one included.
C9_EmptyQuestionIncorrect ==
    (Validated /\ NoAnswerComponents(val_question)) => ~val_result.is_correct

\* C10: multiple choice, for a submitted list of identifiers or a single
\* identifier: is_correct is true iff the set of submitted identifiers is
\* exactly the set of identifiers of the options flagged correct; a strict
\* subset or a strict superset of it is never credited.
C10_McqExactSet ==
    (/\ Validated
     /\ val_question.type = "multiple_choice"
     /\ ~Malformed(val_question, val_response)) =>
        LET opts == val_question.answer_components
            flagged == {opts[k].id : k \in {j \in 1..Len(opts) : opts[j].is_correct}}
            submitted == IF val_response.t = "int" THEN {val_response.i}
                         ELSE {val_response.l[k].i : k \in 1..Len(val_response.l)}
        IN  /\ val_result.exc = "None"
            /\ val_result.is_correct <=>
                   /\ \A id \in flagged : id \in submitted
                   /\ \A id \in submitted : id \in flagged
            /\ (submitted \subseteq flagged /\ submitted # flagged) => ~val_result.is_correct
            /\ (flagged \subseteq submitted /\ submitted # flagged) => ~val_result.is_correct

C10_Witness ==
    /\ Validated
    /\ val_question.type = "multiple_choice"
    /\ val_response = PyList(<<PyInt(2), PyInt(1), PyInt(2)>>)
    /\ Len(val_question.answer_components) = MaxOptions
    /\ val_question.answer_components[1].is_correct
    /\ val_question.answer_components[2].is_correct
    /\ val_result.is_correct

(***************************************************************************)
(* Grading properties (Spec).                                              *)
(***************************************************************************)
AttemptById(id) == attempts[CHOOSE k \in 1..Len(attempts) : attempts[k].id = id]

\* the answers user gave to question_id, oldest first
AnswersOf(user, question_id) ==
    SelectSeq(answers, LAMBDA a :
        a.question_id = question_id /\ AttemptById(a.attempt_id).user_id = user)

\* the mastery records of the pair
ItemsOf(user, question_id) ==
    SelectSeq(user_items, LAMBDA r : r.user_id = user /\ r.question_id = question_id)

\* the rows of a table of mastery records that belong to the pair
ItemsIn(rows, user, question_id) ==
    SelectSeq(rows, LAMBDA r : r.user_id = user /\ r.question_id = question_id)

\* a request stored an answer: only submit_question adds a row to user_answers
AnswerStored == Len(answers') = Len(answers) + 1

\* C6: a graded response of a user to a question that finds no mastery record
\* for the pair creates one with streak 0, ease 2.5, interval 0 and advances
\* it once: (streak 1, interval 1, ease 2.5) after a correct response,
\* (streak 0, interval 1, ease 2.4) after an incorrect one.
C6_FirstAttempt ==
    [][AnswerStored =>
          LET a == answers'[Len(answers')]
              user == AttemptById(a.attempt_id).user_id
              rows == ItemsIn(user_items', user, a.question_id)
          IN  ItemsIn(user_items, user, a.question_id) = <<>> =>
                  /\ Len(rows) = 1
                  /\ rows[1].interval_days = 1
                  /\ IF a.was_correct
                     THEN /\ rows[1].success_streak = 1
                          /\ rows[1].ease_factor = FromDecimal(25, 10)
                     ELSE /\ rows[1].success_streak = 0
                          /\ rows[1].ease_factor = FromDecimal(24, 10)]_vars

C6_Witness ==
    \E user \in Users, p \in DOMAIN Questions, q \in DOMAIN Questions :
        /\ Len(AnswersOf(user, p)) = 1
        /\ AnswersOf(user, p)[1].was_correct
        /\ ItemsOf(user, p)[1].success_streak = 1
        /\ Len(AnswersOf(user, q)) = 1
        /\ ~AnswersOf(user, q)[1].was_correct
        /\ ItemsOf(user, q)[1].ease_factor = FromDecimal(24, 10)

IsBlankMap(r) == r.t = "dict" /\ \A key \in DOMAIN r.d : r.d[key].t = "str"

ClozeValidated ==
    Validated /\ val_question.type = "cloze" /\ IsBlankMap(val_response)

BlankIndices(q) == 0..(Len(q.answer_components) - 1)

\* the string submitted for blank idx, surrounding whitespace removed
Submitted(r, idx) == Strip(BlankValue(r, idx).s, Whitespace)

\* the classification of blank idx taken on its own
BlankClass(q, r, idx) ==
    ClozeBlank_validate_answer(SortedByPosition(q.answer_components)[idx + 1],
                               Submitted(r, idx), q.case_sensitive)

\* C11: a cloze question is graded correct iff every blank, in position order
\* and looked up by its stringified index, classifies as "correct" or "typo";
\* one "incorrect" blank makes the question incorrect.
C11_ClozeAllBlanks ==
    ClozeValidated =>
        /\ val_result.exc = "None"
        /\ val_result.is_correct <=>
               \A idx \in BlankIndices(val_question) :
                   BlankClass(val_question, val_response, idx) \in {"correct", "typo"}

\* two blanks, one exact and one typo, credited as a whole
C11_Witness ==
    /\ ClozeValidated
    /\ Len(val_question.answer_components) = 2
    /\ val_result.is_correct
    /\ \E idx \in BlankIndices(val_question) :
           BlankClass(val_question, val_response, idx) = "typo"

\* C12: details has exactly one entry per blank index "0".."N-1" holding the
\* blank's own classification, the submitted string (surrounding whitespace
\* removed) and the canonical answer; the credited count of the feedback is
\* the number of entries classified correct or typo, and the typo count is
\* appended iff some entry is classified typo.
C12_ClozeDetails ==
    ClozeValidated =>
        LET q == val_question
            r == val_response
            n == Len(q.answer_components)
            det == val_result.details
            credited == {idx \in BlankIndices(q) : det[Str(idx)].result \in {"correct", "typo"}}
            typos == {idx \in BlankIndices(q) : det[Str(idx)].result = "typo"}
        IN  /\ val_result.exc = "None" /\ val_result.arity = 3
            /\ DOMAIN det = {Str(idx) : idx \in BlankIndices(q)}
            /\ \A idx \in BlankIndices(q) :
                   /\ det[Str(idx)].result = BlankClass(q, r, idx)
                   /\ det[Str(idx)].user_answer = Submitted(r, idx)
                   /\ det[Str(idx)].correct_answer =
                          SortedByPosition(q.answer_components)[idx + 1].correct_answer
            /\ val_result.feedback =
                   IF typos # {}
                   THEN Feedback("Got {} out of {} blanks correct ({} with minor typos).",
                                 <<Cardinality(credited), n, Cardinality(typos)>>)
                   ELSE Feedback("Got {} out of {} blanks correct.",
                                 <<Cardinality(credited), n>>)

\* {"0": "cat", "1": "mut"} against the blanks cat, mat
C12_Witness ==
    /\ ClozeValidated
    /\ val_question = ClozeQuestion(1, 1, 1, <<Cat, Mat>>)
    /\ val_result.details["0"].result = "correct"
    /\ val_result.details["1"].result = "typo"
    /\ val_result.feedback.args = <<2, 2, 1>>

\* a string no step of normalization changes
InNormalForm(cs) == cs # <<>> /\ _normalize_answer(cs) = cs /\ Strip(cs, Whitespace) = cs

\* within typo distance: edit distance 1, or 2 with the longer string over 5
TypoDistance(a, b) ==
    LET d == levenshtein_distance(a, b)
        longer == IF Len(a) > Len(b) THEN Len(a) ELSE Len(b)
    IN  d = 1 \/ (d = 2 /\ longer > 5)

\* the accepted answers of a blank: the canonical answer, then the alternates
Accepted(blank) == <<blank.correct_answer>> \o blank.alternate_answers

OneBlankValidated ==
    /\ ClozeValidated
    /\ Len(val_question.answer_components) = 1
    /\ "0" \in DOMAIN val_response.d

C14_TypoOnNormalized ==
    OneBlankValidated =>
        LET blank == val_question.answer_components[1]
            sub == _normalize_answer(Submitted(val_response, 0))
            canon == _normalize_answer(blank.correct_answer)
        IN  (blank.alternate_answers = <<>> /\ sub # <<>> /\ sub # canon) =>
                (val_result.details["0"].result = "typo" <=> TypoDistance(sub, canon))

C16_EmptyNeverCredited ==
    ClozeValidated =>
        \A idx \in BlankIndices(val_question) :
            /\ Strip(BlankValue(val_response, idx).s, Punctuation \cup Whitespace) = <<>>
                   => val_result.details[Str(idx)].result = "incorrect"
            /\ Str(idx) \notin DOMAIN val_response.d
                   => val_result =
                          validate_answer(val_question,
                              PyDict([key \in DOMAIN val_response.d \cup {Str(idx)} |->
                                         IF key = Str(idx) THEN PyStr(<<>>)
                                         ELSE val_response.d[key]]))

\* the one-character answer "a" and no submission at all
C16_Witness ==
    /\ ClozeValidated
    /\ val_question = ClozeQuestion(1, 1, 1, <<<<"a">>>>)
    /\ val_response = PyDict(<<>>)
    /\ val_result.details["0"].result = "incorrect"

(***************************************************************************)
(* Word match properties (SpecValidate).                                   *)
(***************************************************************************)
\* the left indices of the elements of a list that parse into two equal,
\* non-negative integers
CorrectLefts(ms) ==
    {v \in 0..9 : \E k \in 1..Len(ms) :
        /\ ms[k].t = "dict"
        /\ MatchIndex(ms[k], "left") = [exc |-> "None", v |-> v]
        /\ MatchIndex(ms[k], "right") = [exc |-> "None", v |-> v]}

WordMatchValidated == Validated /\ val_question.type = "word_match"

\* C17: for a list of submitted pairs, a pair is correct iff its parsed left
\* index equals its parsed right index and is non-negative; is_correct iff the
\* number of distinct correct left indices equals the number of pairs of the
\* question; the feedback is "Got <count> out of <total> pairs correct.".
C17_WordMatchCount ==
    (/\ WordMatchValidated
     /\ val_response.t = "list"
     /\ \A k \in 1..Len(val_response.l) : val_response.l[k].t = "dict") =>
        LET count == Cardinality(CorrectLefts(val_response.l))
            total == Len(val_question.answer_components)
        IN  /\ val_result.exc = "None"
            /\ val_result.is_correct <=> count = total
            /\ val_result.feedback =
                   Feedback("Got {} out of {} pairs correct.", <<count, total>>)

\* 3 pairs, response [{"0","0"}, {"1","2"}]: "Got 1 out of 3 pairs correct."
C17_Witness ==
    /\ WordMatchValidated
    /\ Len(val_question.answer_components) = 3
    /\ val_response = PyList(<<Match(PyStr(<<"0">>), PyStr(<<"0">>)),
                               Match(PyStr(<<"1">>), PyStr(<<"2">>))>>)
    /\ ~val_result.is_correct
    /\ val_result.feedback.args = <<1, 3>>

\* C18: a response that is not a list is graded incorrect with a feedback and
\* raises nothing; in a list, an element that does not parse into two integer
\* indices (a map or not) is skipped without raising, and the count is the one
\* of the remaining elements.
C18_WordMatchSoftFailure ==
    WordMatchValidated =>
        /\ val_result.exc = "None"
        /\ val_response.t # "list" => ~val_result.is_correct
        /\ val_response.t = "list" =>
               val_result.feedback.args =
                   <<Cardinality(CorrectLefts(val_response.l)),
                     Len(val_question.answer_components)>>

(***************************************************************************)
(* Mastery record properties (Spec).                                       *)
(***************************************************************************)
\* C19: a user has exactly one mastery record for each question graded for
\* them since they last cleared the results of its quiz, and none for any
\* other question; the record of a correct response just graded has a
\* success_streak of at least 1.  As a pair leaves graded only in
\* clear_quiz_results, a record is removed by that request only.
C19_LazyRecords ==
    /\ \A user \in Users, q \in DOMAIN Questions :
           Len(ItemsOf(user, q)) = IF <<user, q>> \in graded THEN 1 ELSE 0
    /\ \A k \in 1..Len(user_items) :
           user_items[k].user_id \in Users /\ user_items[k].question_id \in DOMAIN Questions
    /\ (reply.status = 200 /\ reply.correct) =>
           LET a == answers[Len(answers)]
           IN  ItemsOf(AttemptById(a.attempt_id).user_id, a.question_id)[1].success_streak >= 1

\* a user answered the same question twice and still has one record; another
\* question of the same user has none
C19_Witness ==
    \E user \in Users, p \in DOMAIN Questions, q \in DOMAIN Questions :
        /\ Len(AnswersOf(user, p)) = 2
        /\ Len(ItemsOf(user, p)) = 1
        /\ ItemsOf(user, p)[1].success_streak >= 1
        /\ ItemsOf(user, q) = <<>>

\* C20: a submit-question call of user U for question Q leaves every mastery
\* record of another user or of another question as it was, adds no record
\* but one of (U, Q), and leaves the answers already stored as they were,
\* adding one; also when the response is malformed.
C20_GradingIsolation ==
    [][AnswerStored =>
          LET a == answers'[Len(answers')]
              user == AttemptById(a.attempt_id).user_id
              other(r) == r.user_id # user \/ r.question_id # a.question_id
          IN  /\ SubSeq(answers', 1, Len(answers)) = answers
              /\ attempts' = attempts
              /\ Len(user_items') \in {Len(user_items), Len(user_items) + 1}
              /\ \A k \in 1..Len(user_items) :
                     other(user_items[k]) => user_items'[k] = user_items[k]
              /\ \A k \in (Len(user_items) + 1)..Len(user_items') :
                     ~other(user_items'[k])]_vars

\* a response that made validate_answer raise was graded while the same user
\* had a record for another question, which is as the scheduler left it
C20_Witness ==
    /\ Len(answers) = 2
    /\ answers[2].feedback.fmt = "Error validating answer: {}"
    /\ answers[1].attempt_id = answers[2].attempt_id
    /\ answers[1].question_id # answers[2].question_id
    /\ answers[1].was_correct
    /\ Len(user_items) = 2
    /\ user_items[1].success_streak = 1

(***************************************************************************)
(* Normalization properties (SpecNormalize).                               *)
(***************************************************************************)
\* C22: _normalize_answer is idempotent, and its result neither starts nor
\* ends with a whitespace or punctuation character.
C22_NormalizeIdempotent ==
    norm.done =>
        /\ norm.twice = norm.once
        /\ norm.once # <<>> =>
               /\ Head(norm.once) \notin Whitespace \cup Punctuation
               /\ norm.once[Len(norm.once)] \notin Whitespace \cup Punctuation

(***************************************************************************)
(* Word match completeness (SpecValidate).                                 *)
(***************************************************************************)
PairIndices(q) == 0..(Len(q.answer_components) - 1)

\* a word match question of one pair or more graded a list without raising
WordMatchGraded ==
    /\ WordMatchValidated
    /\ Len(val_question.answer_components) >= 1
    /\ val_response.t = "list"
    /\ val_result.exc = "None"

C27_StreakInterval ==
    /\ item.success_streak = 0 => item.interval_days \in {0, 1}
    /\ item.success_streak = 1 => item.interval_days = 1
    /\ item.success_streak >= 2 => item.interval_days >= 6
    /\ (last = "correct" /\ run >= 2) => item.interval_days >= before.interval_days

\* four correct results in a row at ease 1.3: intervals 1, 6, 8, 10
C27_Witness ==
    /\ last = "correct"
    /\ run = 4
    /\ item.ease_factor = EaseFloor
    /\ before.interval_days = 8
    /\ item.interval_days = 10

(***************************************************************************)
(* C29  Attempt integrity: every answer stored under an attempt is for a   *)
(* question of the quiz the attempt was started on, and when an answer is  *)
(* stored the mastery record put through the scheduler is for a question   *)
(* of that quiz; a submission that names a question of another quiz stores *)
(* no answer.                                                              *)
(***************************************************************************)
C29_AttemptIntegrity ==
    \A k \in 1..Len(answers) :
        \E n \in 1..Len(attempts) :
            /\ attempts[n].id = answers[k].attempt_id
            /\ Questions[answers[k].question_id].quiz_id = attempts[n].quiz_id

(***************************************************************************)
(* C30  Private quiz confidentiality: no attempt exists on a quiz that is  *)
(* not public for a user other than its creator, and a reply of            *)
(* start_attempt lists questions only of quizzes that are public or were   *)
(* created by the user the attempt belongs to.                             *)
(***************************************************************************)
MayRead(user, quiz_id) ==
    Quizzes[quiz_id].is_public \/ Quizzes[quiz_id].creator_id = user

C30_PrivateQuizConfidential ==
    /\ \A k \in 1..Len(attempts) : MayRead(attempts[k].user_id, attempts[k].quiz_id)
    /\ reply.status = 201 =>
           \A k \in 1..Len(reply.questions) :
               MayRead(AttemptById(reply.attempt_id).user_id,
                       Questions[reply.questions[k].id].quiz_id)

(***************************************************************************)
(* C23  Attempt scoring: a finish request that is served (200) leaves the  *)
(* attempt with completed_at set and score = (answers of the attempt with  *)
(* was_correct) / (answers of the attempt), 0.0 when it has no answer; the *)
(* score lies within [0, 1] and is 1.0 when every answer was correct; the  *)
(* reply carries the same score and counts.                                *)
(***************************************************************************)
AnswerIndices(attempt_id) == {k \in 1..Len(answers) : answers[k].attempt_id = attempt_id}

CorrectIndices(attempt_id) == {k \in AnswerIndices(attempt_id) : answers[k].was_correct}

\* correct / total of the answers stored for the attempt
StoredRatio(attempt_id) ==
    IF AnswerIndices(attempt_id) = {} THEN FromDecimal(0, 1)
    ELSE FromDecimal(Cardinality(CorrectIndices(attempt_id)),
                     Cardinality(AnswerIndices(attempt_id)))

C23_AttemptScoring ==
    [][\A user \in Users, attempt_id \in AttemptIds :
          (finish_attempt(user, attempt_id) /\ reply'.status = 200) =>
              LET k == CHOOSE n \in 1..Len(attempts') : attempts'[n].id = attempt_id
                  a == attempts'[k]
              IN  /\ a.completed_at # NULL
                  /\ a.score = StoredRatio(attempt_id)
                  /\ ~FxLess(a.score, FromDecimal(0, 1))
                  /\ ~FxLess(FromDecimal(1, 1), a.score)
                  /\ (AnswerIndices(attempt_id) # {}
                        /\ CorrectIndices(attempt_id) = AnswerIndices(attempt_id)) =>
                         a.score = FromDecimal(1, 1)
                  /\ reply'.score = a.score
                  /\ reply'.correct = Cardinality(CorrectIndices(attempt_id))
                  /\ reply'.total = Cardinality(AnswerIndices(attempt_id))
                  /\ \A n \in 1..Len(attempts') :
                         n # k => attempts'[n] = attempts[n]]_vars

\* a finished attempt with one correct answer out of two
C23_Witness ==
    \E k \in 1..Len(attempts) :
        /\ attempts[k].completed_at # NULL
        /\ attempts[k].score = FromDecimal(1, 2)
        /\ Cardinality(AnswerIndices(attempts[k].id)) = 2
        /\ reply.status = 200 /\ reply.attempt_id = attempts[k].id

(***************************************************************************)
(* C28  A finished attempt is final: in every state, the stored score of   *)
(* an attempt whose completed_at is set equals correct / total of the      *)
(* answers stored for that attempt (0.0 when there is none).               *)
(***************************************************************************)
C28_FinishedIsFinal ==
    \A k \in 1..Len(attempts) :
        attempts[k].completed_at # NULL =>
            attempts[k].score = StoredRatio(attempts[k].id)

(***************************************************************************)
(* C21  Answer confidentiality of serialization: what get_quiz returns for *)
(* a question does not depend on which options are flagged is-correct nor  *)
(* on the answers of cloze blanks: the question with other flags, or with  *)
(* other blank answers, would be returned as the same value.               *)
(***************************************************************************)
\* the questions that differ from q only in is_correct flags or blank answers
AnswerVariants(q) ==
    CASE q.type = "multiple_choice" ->
            {[q EXCEPT !.answer_components =
                 [k \in 1..Len(q.answer_components) |->
                     [q.answer_components[k] EXCEPT !.is_correct = (k \in flagged)]]] :
                flagged \in SUBSET (1..Len(q.answer_components))}
      [] q.type = "cloze" ->
            {[q EXCEPT !.answer_components =
                 [k \in 1..Len(q.answer_components) |->
                     [q.answer_components[k] EXCEPT !.correct_answer = word]]] :
                word \in {Cat, Dog}}
      [] OTHER -> {q}

C21_AnswerConfidential ==
    (quiz_reply.request = "get_quiz" /\ quiz_reply.status = 200) =>
        LET qs == QuestionsIn(question_rows, quiz_reply.out[1].id)
        IN  \A k \in 1..Len(qs) :
                \A variant \in AnswerVariants(qs[k]) :
                    QuestionOut(variant) = quiz_reply.questions[k]

(***************************************************************************)
(* C24  Quiz ownership: add-question, update-quiz, delete-quiz and         *)
(* delete-question on an existing quiz by a user other than its creator    *)
(* are answered 403 and leave the tables quizzes and questions as they     *)
(* were; by the creator they succeed: a question of a supported type is    *)
(* stored under the quiz (201), the fields named in the body are set and   *)
(* no other (200), the quiz and its questions are removed and nothing else *)
(* (200), a question of the quiz is removed and nothing else (200).        *)
(***************************************************************************)
CreatorOf(quiz_id) == quiz_rows[CHOOSE k \in RowsById(quiz_rows, quiz_id) : TRUE].creator_id

Refused ==
    /\ quiz_reply'.status = 403
    /\ quiz_rows' = quiz_rows
    /\ question_rows' = question_rows

BothAnswered == sessions # <<>> /\ \A i \in Requests : sessions.requests[i].pc = "done"

\* the table after request i, then request j, served one at a time
Serial(i, j) ==
    UpsertUserItem(UpsertUserItem(sessions.initial, 1, 1,
                                  sessions.requests[i].was_correct, today),
                   1, 1, sessions.requests[j].was_correct, today)

C25_ConcurrentGrading ==
    BothAnswered =>
        /\ Len(ItemsIn(user_items, 1, 1)) = 1
        /\ user_items \in {Serial(1, 2), Serial(2, 1)}

====
